---- MODULE Spec2Model ----
(***************************************************************************)
(* vaporwm: the window-manager state machine (src/src/wm.rs), the Client   *)
(* record (src/src/client.rs), the two panels' click routing and the host  *)
(* loop (src/src/main.rs).                                                 *)
(*                                                                         *)
(* A handler is an operator from a world record to a world record, read    *)
(* off the Rust code statement by statement; a panic (unwrap on None, a    *)
(* second borrow_mut of a RefCell, an index out of bounds, an overflow in  *)
(* a build with overflow checks) stops the handler where it happens and    *)
(* leaves the process dead.                                                *)
(***************************************************************************)
EXTENDS Integers, Sequences, FiniteSets, TLC

(***************************************************************************)
(* Bounds of the model.                                                    *)
(***************************************************************************)
MaxWindows == 3
MaxEvents == 3
MaxSessionEvents == 4
MaxCycleLen == 12
MaxForeignLen == 2
MaxDragEvents == 4

Windows == 1..MaxWindows

(***************************************************************************)
(* Program constants.                                                      *)
(***************************************************************************)
NumWorkspaces == 9
BORDER_WIDTH == 5
TITLEBAR_HEIGHT == 25
top_panel_PANEL_HEIGHT == 28
bottom_panel_PANEL_HEIGHT == 30
DefaultMaximizedWidth == 1000
DefaultMaximizedHeight == 800
BufWriterCapacity == 8192

(***************************************************************************)
(* The display server as the program sees it.                              *)
(***************************************************************************)
screen_width == 1920
screen_height == 1080
root == 0
ContainerIdBase == 100
top_panel_id == 201
bottom_panel_id == 202

WorkspaceIndices == 0..(NumWorkspaces - 1)

(***************************************************************************)
(* Option<T> as a sequence of length at most one.                          *)
(***************************************************************************)
None == <<>>
Some(v) == <<v>>
IsSome(o) == Len(o) = 1
Unwrap(o) == o[1]

(***************************************************************************)
(* Fixed-width integers: `as i16`, `as u16`, and the range tests that an   *)
(* overflow-checking build applies to +, - on i16 and u16.                 *)
(***************************************************************************)
AsI16(n) == ((n + 32768) % 65536) - 32768
AsU16(n) == n % 65536
FitsI16(n) == n >= -32768 /\ n <= 32767
FitsU16(n) == n >= 0 /\ n <= 65535

\* Rust's integer division truncates toward zero.
RustDiv(a, b) == IF a >= 0 THEN a \div b ELSE -((-a) \div b)

(***************************************************************************)
(* Vec helpers; indices are 0-based as in the source.                      *)
(***************************************************************************)
At(s, i) == s[i + 1]
VecLast(s) == IF Len(s) = 0 THEN None ELSE Some(s[Len(s)])
VecRemove(s, i) == SubSeq(s, 1, i) \o SubSeq(s, i + 2, Len(s))
VecInsert(s, i, e) == SubSeq(s, 1, i) \o <<e>> \o SubSeq(s, i + 1, Len(s))
VecSwap(s, i, j) == [k \in 1..Len(s) |->
                        IF k = i + 1 THEN s[j + 1]
                        ELSE IF k = j + 1 THEN s[i + 1]
                        ELSE s[k]]
VecPop(s) == SubSeq(s, 1, Len(s) - 1)
\* iter().position(|e| e == v): Option<usize>
VecPosition(s, v) ==
    IF \E k \in 1..Len(s) : s[k] = v
    THEN Some((CHOOSE k \in 1..Len(s) : s[k] = v /\ \A j \in 1..(k - 1) : s[j] # v) - 1)
    ELSE None
Range(s) == {s[k] : k \in 1..Len(s)}
NoDuplicates(s) == \A i, j \in 1..Len(s) : s[i] = s[j] => i = j
Orderings(S) == {p \in [1..Cardinality(S) -> S] : \A a, b \in 1..Cardinality(S) : p[a] = p[b] => a = b}

(***************************************************************************)
(* util.rs                                                                 *)
(***************************************************************************)
\* cycle_next comparing with the length instead of the last index
cycle_next_past_end(len, current) == IF current = len THEN 0 ELSE current + 1

cycle_next(len, current) == IF current = len - 1 THEN 0 ELSE current + 1
cycle_previous(len, current) == IF current = 0 THEN len - 1 ELSE current - 1

(***************************************************************************)
(* State.                                                                  *)
(*  pc           where the process is: "boot" (before App::new), "events"  *)
(*               (main waits for events), "dead" (ended by a panic)        *)
(*  panic        which code panicked, "none" while the process lives       *)
(*  workspaces   [0..8 -> [stack, tasklist]] as sequences of client ids    *)
(*  clients      the live Client objects, by window id                     *)
(*  active_workspace_index, drag_state                                     *)
(*  focus        the argument of the last set_focus                        *)
(*  top_panel, bottom_panel   the panels' fields that route clicks         *)
(*  file         the session file                                          *)
(*  saved        what the Wm held when save-and-restart last ran (history) *)
(*  last         the operation handled last and the requests it sent       *)
(*  fuel         number of operations the model still follows              *)
(***************************************************************************)
VARIABLES pc, panic, workspaces, clients, active_workspace_index, drag_state,
          focus, top_panel, bottom_panel, file, saved, last, fuel

vars == <<pc, panic, workspaces, clients, active_workspace_index, drag_state,
          focus, top_panel, bottom_panel, file, saved, last, fuel>>

container_id(id) == id + ContainerIdBase
Containers == {container_id(w) : w \in Windows}

EmptyWorkspace == [stack |-> <<>>, tasklist |-> <<>>]
EmptyWorkspaces == [i \in WorkspaceIndices |-> EmptyWorkspace]

\* SerializedState::default()
DefaultSerializedState ==
    [workspaces |-> EmptyWorkspaces, active_workspace_index |-> 0]

maximized_height == screen_height - top_panel_PANEL_HEIGHT - bottom_panel_PANEL_HEIGHT

(***************************************************************************)
(* The world a handler works on: the Wm fields, the Client objects, the    *)
(* panels, the focus the display server was last told, the requests sent   *)
(* so far by the running operation, and the panic (if any) that ended it.  *)
(***************************************************************************)
World == [workspaces |-> workspaces, clients |-> clients,
          active_workspace_index |-> active_workspace_index,
          drag_state |-> drag_state, focus |-> focus,
          top_panel |-> top_panel, bottom_panel |-> bottom_panel,
          cmds |-> <<>>, panic |-> "none"]

Cmd(name, window, arg) == <<name, window, arg>>
Emit(W, cs) == [W EXCEPT !.cmds = @ \o cs]
Panic(W, why) == [W EXCEPT !.panic = why]
Ok(W) == W.panic = "none"

\* set_focus that sends nothing when there is no client to focus
set_focus_skips_none(W, target) ==
    IF IsSome(target)
    THEN [W EXCEPT !.focus = target,
                   !.cmds = Append(@, Cmd("set_focus", Unwrap(target), 0))]
    ELSE W

\* Api::set_focus: None is sent as the root window.
set_focus(W, target) ==
    [W EXCEPT !.focus = target,
              !.cmds = Append(@, Cmd("set_focus", IF IsSome(target) THEN Unwrap(target) ELSE root, 0))]

top_panel_notify(W) == [W EXCEPT !.top_panel.need_redraw = TRUE]
bottom_panel_notify(W) == [W EXCEPT !.bottom_panel.need_redraw = TRUE]

(***************************************************************************)
(* client.rs                                                               *)
(***************************************************************************)
container_x(c) == IF c.maximized THEN 0 ELSE AsI16(c.x - BORDER_WIDTH)
container_y(c) == IF c.maximized THEN top_panel_PANEL_HEIGHT
                  ELSE AsI16(AsI16(c.y - BORDER_WIDTH) - TITLEBAR_HEIGHT)
container_width(c) == IF c.maximized THEN screen_width ELSE AsU16(c.width + BORDER_WIDTH * 2)
container_height(c) == IF c.maximized THEN maximized_height
                       ELSE AsU16(AsU16(c.height + BORDER_WIDTH * 2) + TITLEBAR_HEIGHT)
inner_offset_x(c) == IF c.maximized THEN 0 ELSE BORDER_WIDTH
inner_offset_y(c) == IF c.maximized THEN 0 ELSE BORDER_WIDTH + TITLEBAR_HEIGHT

\* The additions and subtractions of container_x/y/width/height that leave
\* their type's range: a panic where overflow checks are compiled in.
container_x_overflows(c) == ~c.maximized /\ ~FitsI16(c.x - BORDER_WIDTH)
container_y_overflows(c) ==
    ~c.maximized /\ (~FitsI16(c.y - BORDER_WIDTH) \/ ~FitsI16(c.y - BORDER_WIDTH - TITLEBAR_HEIGHT))
container_width_overflows(c) == ~c.maximized /\ ~FitsU16(c.width + BORDER_WIDTH * 2)
container_height_overflows(c) ==
    ~c.maximized /\ (~FitsU16(c.height + BORDER_WIDTH * 2)
                     \/ ~FitsU16(c.height + BORDER_WIDTH * 2 + TITLEBAR_HEIGHT))

grab_buttons_on_container(id) ==
    << Cmd("grab_button", container_id(id), 1), Cmd("grab_button", container_id(id), 3) >>
ungrab_buttons_on_container(id) ==
    << Cmd("ungrab_button", container_id(id), 1), Cmd("ungrab_button", container_id(id), 3) >>

\* Client::new followed by Client::init.  oc: overflow checks compiled in.
Client_new(W, id, x, y, width, height, maximized, oc) ==
    LET c == [x |-> x, y |-> y, width |-> width, height |-> height,
              maximized |-> maximized, need_redraw |-> TRUE]
    IN  IF oc /\ (container_x_overflows(c) \/ container_y_overflows(c)
                  \/ container_width_overflows(c) \/ container_height_overflows(c))
        THEN Panic(W, "overflow")
        ELSE [W EXCEPT
                !.clients = [w \in (DOMAIN W.clients) \cup {id} |->
                                IF w = id THEN c ELSE W.clients[w]],
                !.cmds = @ \o << Cmd("create_window", container_id(id), 0) >>
                           \o (IF maximized THEN <<>> ELSE grab_buttons_on_container(id))
                           \o << Cmd("add_to_save_set", id, 0),
                                 Cmd("reparent_window", id, container_id(id)),
                                 Cmd("grab_button", id, 1),
                                 Cmd("grab_button", id, 3),
                                 Cmd("set_window_event_mask", id, 0),
                                 Cmd("set_window_border_width", id, 0),
                                 Cmd("put_wm_state_property", id, 0) >>]

\* impl Drop for Client
Client_drop(W, id) ==
    [W EXCEPT !.clients = [w \in (DOMAIN W.clients) \ {id} |-> W.clients[w]],
              !.cmds = @ \o << Cmd("reparent_window", id, root),
                               Cmd("remove_from_save_set", id, 0),
                               Cmd("destroy_window", container_id(id), 0) >>]

Client_notify(W, id) == [W EXCEPT !.clients[id].need_redraw = TRUE]

Client_set_x(W, id, x) ==
    LET W1 == [W EXCEPT !.clients[id].x = x]
        c == W1.clients[id]
    IN  IF c.maximized THEN W1
        ELSE Emit(W1, << Cmd("set_window_x", container_id(id), container_x(c)) >>)

Client_set_y(W, id, y) ==
    LET W1 == [W EXCEPT !.clients[id].y = y]
        c == W1.clients[id]
    IN  IF c.maximized THEN W1
        ELSE Emit(W1, << Cmd("set_window_y", container_id(id), container_y(c)) >>)

Client_set_size(W, id, width, height, oc) ==
    LET W1 == [W EXCEPT !.clients[id].width = width, !.clients[id].height = height]
        c == W1.clients[id]
    IN  IF c.maximized THEN W1
        ELSE IF oc /\ (container_width_overflows(c) \/ container_height_overflows(c))
        THEN Panic(Emit(W1, << Cmd("set_window_width", id, width),
                               Cmd("set_window_height", id, height) >>), "overflow")
        ELSE [W1 EXCEPT
                !.clients[id].need_redraw = TRUE,
                !.cmds = @ \o << Cmd("set_window_width", id, width),
                                 Cmd("set_window_height", id, height),
                                 Cmd("set_window_width", container_id(id), container_width(c)),
                                 Cmd("set_window_height", container_id(id), container_height(c)) >>]

\* set_maximized recording the maximized geometry in the client's own fields
Client_set_maximized_resizes(W, id, maximized, oc) ==
    IF maximized = W.clients[id].maximized THEN W
    ELSE LET W1 == [W EXCEPT !.clients[id].maximized = maximized]
         IN  IF maximized
             THEN [W1 EXCEPT !.clients[id].x = 0,
                             !.clients[id].y = top_panel_PANEL_HEIGHT,
                             !.clients[id].width = container_width(W1.clients[id]),
                             !.clients[id].height = container_height(W1.clients[id])]
             ELSE [W1 EXCEPT !.clients[id].need_redraw = TRUE]

\* set_maximized that leaves the container's button grabs when maximizing
Client_set_maximized_keeps_grabs(W, id, maximized, oc) ==
    IF maximized = W.clients[id].maximized THEN W
    ELSE
    LET W1 == [W EXCEPT !.clients[id].maximized = maximized]
        c == W1.clients[id]
        head == << Cmd("set_window_x", id, inner_offset_x(c)),
                   Cmd("set_window_y", id, inner_offset_y(c)) >>
    IN  IF oc /\ (container_x_overflows(c) \/ container_y_overflows(c)
                  \/ container_width_overflows(c) \/ container_height_overflows(c))
        THEN Panic(Emit(W1, head), "overflow")
        ELSE [W1 EXCEPT
                !.clients[id].need_redraw = IF maximized THEN @ ELSE TRUE,
                !.cmds = @ \o head
                           \o << Cmd("set_window_x", container_id(id), container_x(c)),
                                 Cmd("set_window_y", container_id(id), container_y(c)),
                                 Cmd("set_window_width", container_id(id), container_width(c)),
                                 Cmd("set_window_height", container_id(id), container_height(c)),
                                 Cmd("set_window_width", id,
                                     IF maximized THEN container_width(c) ELSE c.width),
                                 Cmd("set_window_height", id,
                                     IF maximized THEN container_height(c) ELSE c.height) >>
                           \o (IF maximized THEN <<>>
                               ELSE grab_buttons_on_container(id))]

Client_set_maximized(W, id, maximized, oc) ==
    IF maximized = W.clients[id].maximized THEN W
    ELSE
    LET W1 == [W EXCEPT !.clients[id].maximized = maximized]
        c == W1.clients[id]
        head == << Cmd("set_window_x", id, inner_offset_x(c)),
                   Cmd("set_window_y", id, inner_offset_y(c)) >>
    IN  IF oc /\ (container_x_overflows(c) \/ container_y_overflows(c)
                  \/ container_width_overflows(c) \/ container_height_overflows(c))
        THEN Panic(Emit(W1, head), "overflow")
        ELSE [W1 EXCEPT
                !.clients[id].need_redraw = IF maximized THEN @ ELSE TRUE,
                !.cmds = @ \o head
                           \o << Cmd("set_window_x", container_id(id), container_x(c)),
                                 Cmd("set_window_y", container_id(id), container_y(c)),
                                 Cmd("set_window_width", container_id(id), container_width(c)),
                                 Cmd("set_window_height", container_id(id), container_height(c)),
                                 Cmd("set_window_width", id,
                                     IF maximized THEN container_width(c) ELSE c.width),
                                 Cmd("set_window_height", id,
                                     IF maximized THEN container_height(c) ELSE c.height) >>
                           \o (IF maximized THEN ungrab_buttons_on_container(id)
                               ELSE grab_buttons_on_container(id))]

(***************************************************************************)
(* wm.rs: accessors                                                        *)
(***************************************************************************)
active_workspace(W) == W.workspaces[W.active_workspace_index]
active_stack(W) == active_workspace(W).stack
active_tasklist(W) == active_workspace(W).tasklist

\* the search made in the active workspace only
find_client_active_only(W, id) ==
    IF IsSome(VecPosition(active_stack(W), id))
    THEN Some(<<W.active_workspace_index, Unwrap(VecPosition(active_stack(W), id))>>)
    ELSE None

\* find_map over the workspaces in index order: the first workspace whose
\* stack holds the id, with the id's position in it.
find_client(W, id) ==
    IF \E i \in WorkspaceIndices : IsSome(VecPosition(W.workspaces[i].stack, id))
    THEN LET i == CHOOSE i \in WorkspaceIndices :
                    /\ IsSome(VecPosition(W.workspaces[i].stack, id))
                    /\ \A j \in 0..(i - 1) : ~IsSome(VecPosition(W.workspaces[j].stack, id))
         IN Some(<<i, Unwrap(VecPosition(W.workspaces[i].stack, id))>>)
    ELSE None

(***************************************************************************)
(* wm.rs: raise_client, change_active_workspace                            *)
(***************************************************************************)
\* raise_client that exchanges the client with the topmost one
raise_client_swaps(W, stack_index) ==
    LET awi == W.active_workspace_index
        clients0 == active_stack(W)
    IN  IF Len(clients0) = 0 \/ stack_index >= Len(clients0)
        THEN Panic(W, "index_out_of_bounds")
        ELSE IF stack_index = Len(clients0) - 1 THEN W
        ELSE
        LET client == At(clients0, stack_index)
            W1 == Client_notify(W, clients0[Len(clients0)])
            W2 == Emit(W1, << Cmd("raise_window", container_id(client), 0),
                              Cmd("raise_window", top_panel_id, 0),
                              Cmd("raise_window", bottom_panel_id, 0) >>)
            W3 == set_focus(W2, Some(client))
            W4 == Client_notify(W3, client)
            W5 == [W4 EXCEPT !.workspaces[awi].stack =
                                VecSwap(clients0, stack_index, Len(clients0) - 1)]
        IN  bottom_panel_notify(W5)

\* raise_client without the early return for the topmost client
raise_client_always(W, stack_index) ==
    LET awi == W.active_workspace_index
        clients0 == active_stack(W)
    IN  IF Len(clients0) = 0 \/ stack_index >= Len(clients0)
        THEN Panic(W, "index_out_of_bounds")
        ELSE
        LET client == At(clients0, stack_index)
            removed == VecRemove(clients0, stack_index)
            W1 == IF Len(removed) = 0 THEN W
                  ELSE Client_notify(W, removed[Len(removed)])
            W2 == Emit(W1, << Cmd("raise_window", container_id(client), 0),
                              Cmd("raise_window", top_panel_id, 0),
                              Cmd("raise_window", bottom_panel_id, 0) >>)
            W3 == set_focus(W2, Some(client))
            W4 == Client_notify(W3, client)
            W5 == [W4 EXCEPT !.workspaces[awi].stack = Append(removed, client)]
        IN  bottom_panel_notify(W5)

\* raise_client that notifies only the client it raises
raise_client_notifies_raised(W, stack_index) ==
    LET awi == W.active_workspace_index
        clients0 == active_stack(W)
    IN  IF Len(clients0) = 0 \/ stack_index >= Len(clients0)
        THEN Panic(W, "index_out_of_bounds")
        ELSE IF stack_index = Len(clients0) - 1 THEN W
        ELSE
        LET client == At(clients0, stack_index)
            removed == VecRemove(clients0, stack_index)
            W2 == Emit(W, << Cmd("raise_window", container_id(client), 0),
                             Cmd("raise_window", top_panel_id, 0),
                             Cmd("raise_window", bottom_panel_id, 0) >>)
            W3 == set_focus(W2, Some(client))
            W4 == Client_notify(W3, client)
            W5 == [W4 EXCEPT !.workspaces[awi].stack = Append(removed, client)]
        IN  bottom_panel_notify(W5)

raise_client(W, stack_index) ==
    LET awi == W.active_workspace_index
        clients0 == active_stack(W)
    IN  IF Len(clients0) = 0 \/ stack_index >= Len(clients0)
        THEN Panic(W, "index_out_of_bounds")
        ELSE IF stack_index = Len(clients0) - 1 THEN W
        ELSE
        LET client == At(clients0, stack_index)
            removed == VecRemove(clients0, stack_index)
            W1 == IF Len(removed) = 0 THEN W
                  ELSE Client_notify(W, removed[Len(removed)])
            W2 == Emit(W1, << Cmd("raise_window", container_id(client), 0),
                              Cmd("raise_window", top_panel_id, 0),
                              Cmd("raise_window", bottom_panel_id, 0) >>)
            W3 == set_focus(W2, Some(client))
            W4 == Client_notify(W3, client)
            W5 == [W4 EXCEPT !.workspaces[awi].stack = Append(removed, client)]
        IN  bottom_panel_notify(W5)

RECURSIVE notify_all(_, _)
notify_all(W, ids) ==
    IF ids = <<>> THEN W ELSE notify_all(Client_notify(W, ids[1]), Tail(ids))

Reverse(s) == [k \in 1..Len(s) |-> s[Len(s) + 1 - k]]

\* change_active_workspace leaving the windows of the workspace it leaves mapped
change_active_workspace_keeps_mapped(W, index) ==
    IF W.active_workspace_index = index THEN W
    ELSE IF index >= NumWorkspaces THEN Panic(W, "index_out_of_bounds")
    ELSE
    LET target == W.workspaces[index].stack
        W1 == Emit(notify_all(W, target),
                   [k \in 1..Len(target) |-> Cmd("map_window", container_id(Reverse(target)[k]), 0)])
        W2 == set_focus(W1, VecLast(target))
        W3 == W2
        W4 == [W3 EXCEPT !.active_workspace_index = index]
    IN  bottom_panel_notify(top_panel_notify(W4))

change_active_workspace(W, index) ==
    IF W.active_workspace_index = index THEN W
    ELSE IF index >= NumWorkspaces THEN Panic(W, "index_out_of_bounds")
    ELSE
    LET target == W.workspaces[index].stack
        W1 == Emit(notify_all(W, target),
                   [k \in 1..Len(target) |-> Cmd("map_window", container_id(Reverse(target)[k]), 0)])
        W2 == set_focus(W1, VecLast(target))
        W3 == Emit(W2, [k \in 1..Len(active_stack(W)) |->
                           Cmd("unmap_window", container_id(active_stack(W)[k]), 0)])
        W4 == [W3 EXCEPT !.active_workspace_index = index]
    IN  bottom_panel_notify(top_panel_notify(W4))

(***************************************************************************)
(* wm.rs: handle_map_request                                               *)
(***************************************************************************)
\* x and y of a new client, as i16 arithmetic on the casts of the u16 values
map_request_x(width) == RustDiv(AsI16(AsI16(screen_width) - AsI16(width)), 2)
map_request_y(height) ==
    RustDiv(AsI16(AsI16(AsI16(screen_height) + AsI16(top_panel_PANEL_HEIGHT)) - AsI16(height)), 2)
map_request_overflows(width, height) ==
    \/ ~FitsI16(AsI16(screen_width) - AsI16(width))
    \/ ~FitsI16(AsI16(screen_height) + AsI16(top_panel_PANEL_HEIGHT))
    \/ ~FitsI16(AsI16(AsI16(screen_height) + AsI16(top_panel_PANEL_HEIGHT)) - AsI16(height))

\* the tasklist left without the new client
map_request_tasklist_unchanged(tasklist, tasklist_index, id) == tasklist

\* the new client put at the end of the tasklist
map_request_tasklist_append(tasklist, tasklist_index, id) == Append(tasklist, id)

\* where the new client goes in the tasklist
map_request_tasklist(tasklist, tasklist_index, id) == VecInsert(tasklist, tasklist_index + 1, id)

\* the test made on the active workspace only
client_already_managed_active_only(W, id) == id \in Range(active_stack(W))

\* workspaces.iter().any(|workspace| stack.iter().any(|client| client.id() == id))
client_already_managed(W, id) ==
    \E i \in WorkspaceIndices : id \in Range(W.workspaces[i].stack)

handle_map_request(W, id, geometry, oc) ==
    IF client_already_managed(W, id) THEN W
    ELSE
    LET awi == W.active_workspace_index
        maximized == geometry.width = screen_width
        W0 == IF maximized /\ geometry.height # maximized_height
              THEN Emit(W, << Cmd("set_window_height", id, maximized_height) >>)
              ELSE W
        width == IF maximized THEN DefaultMaximizedWidth ELSE geometry.width
        height == IF maximized THEN DefaultMaximizedHeight ELSE geometry.height
    IN  IF oc /\ map_request_overflows(width, height) THEN Panic(W0, "overflow")
        ELSE
        LET W1 == Client_new(W0, id, map_request_x(width), map_request_y(height),
                             width, height, maximized, oc)
        IN  IF ~Ok(W1) THEN W1
            ELSE
            LET W2 == set_focus(Emit(W1, << Cmd("map_window", id, 0),
                                            Cmd("map_window", container_id(id), 0) >>),
                                Some(id))
                stack == active_stack(W2)
                tasklist == active_tasklist(W2)
                tail == << Cmd("raise_window", top_panel_id, 0),
                           Cmd("raise_window", bottom_panel_id, 0) >>
            IN  IF Len(stack) = 0
                THEN bottom_panel_notify(top_panel_notify(Emit(
                        [W2 EXCEPT !.workspaces[awi].tasklist = Append(tasklist, id),
                                   !.workspaces[awi].stack = Append(stack, id)], tail)))
                ELSE
                LET active_client == stack[Len(stack)]
                    W3 == Client_notify(W2, active_client)
                    tasklist_index == VecPosition(tasklist, active_client)
                IN  IF ~IsSome(tasklist_index)
                    THEN Panic(Client_drop(W3, id), "unwrap_none")
                    ELSE bottom_panel_notify(top_panel_notify(Emit(
                            [W3 EXCEPT
                               !.workspaces[awi].tasklist =
                                    map_request_tasklist(tasklist, Unwrap(tasklist_index), id),
                               !.workspaces[awi].stack = Append(stack, id)], tail)))

(***************************************************************************)
(* wm.rs: handle_unmap_notify                                              *)
(***************************************************************************)
handle_unmap_notify(W, window) ==
    LET found == find_client(W, window)
    IN  IF ~IsSome(found) THEN W
        ELSE
        LET workspace_index == Unwrap(found)[1]
            client_stack_index == Unwrap(found)[2]
            workspace == W.workspaces[workspace_index]
            W1 == [W EXCEPT !.workspaces[workspace_index].stack =
                                VecRemove(workspace.stack, client_stack_index)]
            client_tasklist_index == VecPosition(workspace.tasklist, window)
        IN  IF ~IsSome(client_tasklist_index)
            THEN Panic(Client_drop(W1, window), "unwrap_none")
            ELSE
            LET newtl == VecRemove(workspace.tasklist, Unwrap(client_tasklist_index))
                W2 == [W1 EXCEPT !.workspaces[workspace_index].tasklist = newtl]
                W3 == IF window \in Range(newtl) THEN W2 ELSE Client_drop(W2, window)
                W4 == top_panel_notify(W3)
                stack == W4.workspaces[workspace_index].stack
            IN  IF workspace_index = W4.active_workspace_index
                THEN bottom_panel_notify(set_focus(
                        IF Len(stack) = 0 THEN W4 ELSE Client_notify(W4, stack[Len(stack)]),
                        VecLast(stack)))
                ELSE W4

(***************************************************************************)
(* wm.rs: key commands                                                     *)
(***************************************************************************)
\* the client put in front of the target workspace's tasklist, where the code
\* pushes it at the end
move_active_client_to_workspace_prepends(W, workspace_index) ==
    LET awi == W.active_workspace_index
        stack0 == active_stack(W)
        tasklist0 == active_tasklist(W)
    IN  IF Len(stack0) = 0 THEN W
        ELSE
        LET client == stack0[Len(stack0)]
            stack == VecPop(stack0)
            W1 == Emit([W EXCEPT !.workspaces[awi].stack = stack],
                       << Cmd("unmap_window", container_id(client), 0) >>)
            W2 == IF Len(stack) = 0 THEN W1 ELSE Client_notify(W1, stack[Len(stack)])
            W3 == Emit(W2, << Cmd("raise_window", container_id(client), 0),
                              Cmd("raise_window", top_panel_id, 0),
                              Cmd("raise_window", bottom_panel_id, 0) >>)
            W4 == set_focus(W3, VecLast(stack))
            client_tasklist_index == VecPosition(tasklist0, client)
        IN  IF ~IsSome(client_tasklist_index)
            THEN Panic(Client_drop(W4, client), "unwrap_none")
            ELSE
            LET newtl == VecRemove(tasklist0, Unwrap(client_tasklist_index))
                W5 == [W4 EXCEPT !.workspaces[awi].tasklist = newtl]
            IN  IF workspace_index >= NumWorkspaces
                THEN Panic(Client_drop(W5, client), "index_out_of_bounds")
                \* the active workspace's stack is still mutably borrowed
                ELSE IF workspace_index = awi
                THEN Panic(IF client \in Range(newtl) THEN W5 ELSE Client_drop(W5, client),
                           "already_borrowed")
                ELSE bottom_panel_notify(top_panel_notify(
                        [W5 EXCEPT
                           !.workspaces[workspace_index].stack = Append(@, client),
                           !.workspaces[workspace_index].tasklist = <<client>> \o @]))

move_active_client_to_workspace(W, workspace_index) ==
    LET awi == W.active_workspace_index
        stack0 == active_stack(W)
        tasklist0 == active_tasklist(W)
    IN  IF Len(stack0) = 0 THEN W
        ELSE
        LET client == stack0[Len(stack0)]
            stack == VecPop(stack0)
            W1 == Emit([W EXCEPT !.workspaces[awi].stack = stack],
                       << Cmd("unmap_window", container_id(client), 0) >>)
            W2 == IF Len(stack) = 0 THEN W1 ELSE Client_notify(W1, stack[Len(stack)])
            W3 == Emit(W2, << Cmd("raise_window", container_id(client), 0),
                              Cmd("raise_window", top_panel_id, 0),
                              Cmd("raise_window", bottom_panel_id, 0) >>)
            W4 == set_focus(W3, VecLast(stack))
            client_tasklist_index == VecPosition(tasklist0, client)
        IN  IF ~IsSome(client_tasklist_index)
            THEN Panic(Client_drop(W4, client), "unwrap_none")
            ELSE
            LET newtl == VecRemove(tasklist0, Unwrap(client_tasklist_index))
                W5 == [W4 EXCEPT !.workspaces[awi].tasklist = newtl]
            IN  IF workspace_index >= NumWorkspaces
                THEN Panic(Client_drop(W5, client), "index_out_of_bounds")
                \* the active workspace's stack is still mutably borrowed
                ELSE IF workspace_index = awi
                THEN Panic(IF client \in Range(newtl) THEN W5 ELSE Client_drop(W5, client),
                           "already_borrowed")
                ELSE bottom_panel_notify(top_panel_notify(
                        [W5 EXCEPT
                           !.workspaces[workspace_index].stack = Append(@, client),
                           !.workspaces[workspace_index].tasklist = Append(@, client)]))

\* the entry taken out and put back at the neighbouring index, where the
\* code exchanges two entries
move_active_client_in_tasklist_reinserts(W, forward) ==
    LET awi == W.active_workspace_index
        stack == active_stack(W)
        tasklist == active_tasklist(W)
    IN  IF Len(stack) = 0 THEN W
        ELSE
        LET client_tasklist_index == VecPosition(tasklist, stack[Len(stack)])
        IN  IF ~IsSome(client_tasklist_index) THEN Panic(W, "unwrap_none")
            ELSE
            LET i == Unwrap(client_tasklist_index)
                j == IF forward THEN cycle_next(Len(tasklist), i)
                     ELSE cycle_previous(Len(tasklist), i)
            IN  bottom_panel_notify(top_panel_notify(
                    [W EXCEPT !.workspaces[awi].tasklist =
                        VecInsert(VecRemove(tasklist, i), j, At(tasklist, i))]))

\* the move that goes forward whichever direction is asked
move_active_client_in_tasklist_forward_only(W, forward) ==
    LET awi == W.active_workspace_index
        stack == active_stack(W)
        tasklist == active_tasklist(W)
    IN  IF Len(stack) = 0 THEN W
        ELSE
        LET client_tasklist_index == VecPosition(tasklist, stack[Len(stack)])
        IN  IF ~IsSome(client_tasklist_index) THEN Panic(W, "unwrap_none")
            ELSE
            LET i == Unwrap(client_tasklist_index)
                j == cycle_next(Len(tasklist), i)
            IN  bottom_panel_notify(top_panel_notify(
                    [W EXCEPT !.workspaces[awi].tasklist = VecSwap(tasklist, i, j)]))

move_active_client_in_tasklist(W, forward) ==
    LET awi == W.active_workspace_index
        stack == active_stack(W)
        tasklist == active_tasklist(W)
    IN  IF Len(stack) = 0 THEN W
        ELSE
        LET client_tasklist_index == VecPosition(tasklist, stack[Len(stack)])
        IN  IF ~IsSome(client_tasklist_index) THEN Panic(W, "unwrap_none")
            ELSE
            LET i == Unwrap(client_tasklist_index)
                j == IF forward THEN cycle_next(Len(tasklist), i)
                     ELSE cycle_previous(Len(tasklist), i)
            IN  bottom_panel_notify(top_panel_notify(
                    [W EXCEPT !.workspaces[awi].tasklist = VecSwap(tasklist, i, j)]))

move_active_client_forward_in_tasklist(W) == move_active_client_in_tasklist(W, TRUE)
move_active_client_backward_in_tasklist(W) == move_active_client_in_tasklist(W, FALSE)

raise_tasklist_client(W, next) ==
    LET stack == active_stack(W)
        tasklist == active_tasklist(W)
    IN  IF Len(stack) = 0 THEN W
        ELSE
        LET client_tasklist_index == VecPosition(tasklist, stack[Len(stack)])
        IN  IF ~IsSome(client_tasklist_index) THEN Panic(W, "unwrap_none")
            ELSE
            LET i == Unwrap(client_tasklist_index)
                j == IF next THEN cycle_next(Len(tasklist), i)
                     ELSE cycle_previous(Len(tasklist), i)
                other == At(tasklist, j)
            IN  raise_client(W, Unwrap(VecPosition(stack, other)))

raise_next_tasklist_client(W) == raise_tasklist_client(W, TRUE)
raise_previous_tasklist_client(W) == raise_tasklist_client(W, FALSE)

\* handle_key_press for every key but Escape.  key: the Keycode; number:
\* 1..9 for the Number keys; is_shift: ModMask::SHIFT in the event state.
handle_key_press(W, key, number, is_shift, oc) ==
    CASE key = "K" /\ is_shift -> move_active_client_forward_in_tasklist(W)
      [] key = "J" /\ is_shift -> move_active_client_backward_in_tasklist(W)
      [] key = "K" /\ ~is_shift -> raise_next_tasklist_client(W)
      [] key = "J" /\ ~is_shift -> raise_previous_tasklist_client(W)
      [] key = "Number" /\ is_shift -> move_active_client_to_workspace(W, number - 1)
      [] key = "Number" /\ ~is_shift -> change_active_workspace(W, number - 1)
      [] key = "Right" ->
            change_active_workspace(W, cycle_next(NumWorkspaces, W.active_workspace_index))
      [] key = "Left" ->
            change_active_workspace(W, cycle_previous(NumWorkspaces, W.active_workspace_index))
      [] key = "X" ->
            IF Len(active_stack(W)) = 0 THEN W
            ELSE Emit(W, << Cmd("ask_window_to_close", Unwrap(VecLast(active_stack(W))), 0) >>)
      [] key = "M" ->
            IF Len(active_stack(W)) = 0 THEN W
            ELSE LET id == Unwrap(VecLast(active_stack(W)))
                 IN Client_set_maximized(W, id, ~W.clients[id].maximized, oc)
      [] OTHER -> W

(***************************************************************************)
(* wm.rs: pointer events.  A button or motion event carries event (the     *)
(* window it is reported on), detail (the button), mod4, event_x, event_y  *)
(* (window-local, i16) and root_x, root_y (i16).                           *)
(***************************************************************************)
DragState(kind, x, y) == [kind |-> kind, x |-> x, y |-> y]

\* iter().position(|client| client.id() == window || client.container_id() == window)
position_by_window(stack, window) ==
    IF \E k \in 1..Len(stack) : stack[k] = window \/ container_id(stack[k]) = window
    THEN Some((CHOOSE k \in 1..Len(stack) :
                  /\ (stack[k] = window \/ container_id(stack[k]) = window)
                  /\ \A j \in 1..(k - 1) : ~(stack[j] = window \/ container_id(stack[j]) = window))
              - 1)
    ELSE None

on_titlebar(c, event_x, event_y) ==
    /\ BORDER_WIDTH <= AsU16(event_x)
    /\ AsU16(event_x) <= AsU16(BORDER_WIDTH + c.width)
    /\ BORDER_WIDTH <= AsU16(event_y)
    /\ AsU16(event_y) <= BORDER_WIDTH + TITLEBAR_HEIGHT

handle_button_press(W, ev, oc) ==
    LET found == position_by_window(active_stack(W), ev.event)
    IN  IF ~IsSome(found) THEN W
        ELSE
        LET client_index == Unwrap(found)
            is_on_container == container_id(At(active_stack(W), client_index)) = ev.event
            button == ev.detail
            is_mod4 == ev.mod4
        IN  IF is_on_container /\ ~(button = 1 \/ (button = 3 /\ is_mod4)) THEN W
            ELSE
            LET W1 == IF is_on_container THEN W
                      ELSE Emit(W, << Cmd("allow_pointer_events", 0, 0) >>)
                W2 == raise_client(W1, client_index)
            IN  IF ~Ok(W2) THEN W2
                ELSE
                LET id == Unwrap(VecLast(active_stack(W2)))
                    c == W2.clients[id]
                IN  IF c.maximized THEN W2
                    ELSE IF oc /\ ~FitsU16(BORDER_WIDTH + c.width) THEN Panic(W2, "overflow")
                    ELSE IF button = 1
                            /\ (is_mod4 \/ (is_on_container /\ on_titlebar(c, ev.event_x, ev.event_y)))
                    THEN [W2 EXCEPT !.drag_state =
                            Some(DragState("Move", AsU16(ev.root_x), AsU16(ev.root_y)))]
                    ELSE IF button = 3 /\ is_mod4
                    THEN IF oc /\ (~FitsI16(c.x + AsI16(c.width)) \/ ~FitsI16(c.y + AsI16(c.height)))
                         THEN Panic(W2, "overflow")
                         ELSE
                         LET x == AsU16(AsI16(c.x + AsI16(c.width)))
                             y == AsU16(AsI16(c.y + AsI16(c.height)))
                         IN  [Emit(W2, << Cmd("move_pointer", x, y) >>)
                                EXCEPT !.drag_state = Some(DragState("Resize", x, y))]
                    ELSE W2

\* a move that places the client at the pointer instead of adding the delta
handle_drag_move_to_pointer(W, id, dx, dy, oc) ==
    Client_set_y(Client_set_x(W, id, AsI16(Unwrap(W.drag_state).x + dx)),
                 id, AsI16(Unwrap(W.drag_state).y + dy))

handle_drag_move(W, id, dx, dy, oc) ==
    LET c == W.clients[id]
    IN  IF oc /\ ~FitsI16(c.x + dx) THEN Panic(W, "overflow")
        ELSE LET W1 == Client_set_x(W, id, AsI16(c.x + dx))
             IN  IF oc /\ ~FitsI16(c.y + dy) THEN Panic(W1, "overflow")
                 ELSE Client_set_y(W1, id, AsI16(c.y + dy))

\* (a as i16 + d).max(1) as u16
resize_dimension(a, d) ==
    LET v == AsI16(AsI16(a) + d) IN AsU16(IF v >= 1 THEN v ELSE 1)

handle_drag_resize(W, id, dx, dy, oc) ==
    LET c == W.clients[id]
    IN  IF oc /\ (~FitsI16(AsI16(c.width) + dx) \/ ~FitsI16(AsI16(c.height) + dy))
        THEN Panic(W, "overflow")
        ELSE Client_set_size(W, id, resize_dimension(c.width, dx),
                             resize_dimension(c.height, dy), oc)

handle_motion_notify(W, ev, oc) ==
    IF ~IsSome(W.drag_state) THEN W
    ELSE
    LET state == Unwrap(W.drag_state)
        found == position_by_window(active_stack(W), ev.event)
    IN  IF ~IsSome(found) THEN W
        ELSE
        LET id == At(active_stack(W), Unwrap(found))
            dx == AsI16(ev.root_x - AsI16(state.x))
            dy == AsI16(ev.root_y - AsI16(state.y))
        IN  IF oc /\ (~FitsI16(ev.root_x - AsI16(state.x)) \/ ~FitsI16(ev.root_y - AsI16(state.y)))
            THEN Panic(W, "overflow")
            ELSE
            LET W1 == IF state.kind = "Move" THEN handle_drag_move(W, id, dx, dy, oc)
                      ELSE handle_drag_resize(W, id, dx, dy, oc)
            IN  IF ~Ok(W1) THEN W1
                ELSE [W1 EXCEPT !.drag_state =
                        Some(DragState(state.kind, AsU16(ev.root_x), AsU16(ev.root_y)))]

\* a button release that is ignored, as any event outside the match is
handle_button_release_ignored(W) == W

handle_button_release(W) == [W EXCEPT !.drag_state = None]

(***************************************************************************)
(* wm.rs: handle_property_notify, handle_configure_request                 *)
(***************************************************************************)
handle_property_notify(W, window, atom) ==
    LET found == find_client(W, window)
    IN  IF ~IsSome(found) THEN W
        ELSE
        LET workspace_index == Unwrap(found)[1]
        IN  CASE atom = "WM_CLASS" -> top_panel_notify(W)
              [] atom \in {"_NET_WM_NAME", "_NET_WM_ICON"} ->
                    LET W1 == Client_notify(W, window)
                    IN  IF workspace_index = W.active_workspace_index
                        THEN bottom_panel_notify(W1) ELSE W1
              [] OTHER -> W

\* handle_configure_request that resizes whatever the value mask holds
handle_configure_request_any_mask(W, ev, oc) ==
    LET found == find_client(W, ev.window)
    IN  IF ~IsSome(found)
        THEN Emit(W, << Cmd("allow_configure_request", ev.window, ev.value_mask) >>)
        ELSE Client_set_size(W, ev.window, ev.width, ev.height, oc)

handle_configure_request(W, ev, oc) ==
    LET found == find_client(W, ev.window)
    IN  IF ~IsSome(found)
        THEN Emit(W, << Cmd("allow_configure_request", ev.window, ev.value_mask) >>)
        ELSE IF ~("WIDTH" \in ev.value_mask) /\ ~("HEIGHT" \in ev.value_mask) THEN W
        ELSE Client_set_size(W, ev.window, ev.width, ev.height, oc)

(***************************************************************************)
(* bottom_panel.rs: the layout made by draw and used by handle_button_press*)
(***************************************************************************)
bottom_panel_layout(n) ==
    LET raw == screen_width \div n
        justified == ~(raw > 300)
        entry_width == IF raw > 300 THEN 300 ELSE raw
    IN  [k \in 1..n |->
            LET offset == (k - 1) * entry_width
                width == IF justified /\ k = n THEN screen_width - entry_width ELSE entry_width
            IN  << offset, offset + width >>]

BottomPanel_request_redraw(W) ==
    IF ~W.bottom_panel.need_redraw THEN W
    ELSE
    LET W1 == [W EXCEPT !.bottom_panel.need_redraw = FALSE, !.bottom_panel.layout = <<>>]
        clients0 == active_tasklist(W)
    IN  IF Len(clients0) = 0 THEN W1
        ELSE IF Len(active_stack(W)) = 0 THEN Panic(W1, "unwrap_none")
        ELSE [W1 EXCEPT !.bottom_panel.layout = bottom_panel_layout(Len(clients0))]

BottomPanel_handle_button_press(W, root_x) ==
    LET layout == W.bottom_panel.layout
        hits == {k \in 1..Len(layout) : layout[k][1] <= AsU16(root_x) /\ AsU16(root_x) <= layout[k][2]}
    IN  IF hits = {} THEN W
        ELSE
        LET tasklist_index == (CHOOSE k \in hits : \A j \in hits : k <= j) - 1
        IN  IF tasklist_index >= Len(active_tasklist(W)) THEN Panic(W, "index_out_of_bounds")
            ELSE
            LET stack_index == VecPosition(active_stack(W), At(active_tasklist(W), tasklist_index))
            IN  IF ~IsSome(stack_index) THEN Panic(W, "unwrap_none")
                ELSE raise_client(W, Unwrap(stack_index))

(***************************************************************************)
(* top_panel.rs: a primary press is deferred to the next redraw pass; the  *)
(* layout always has one range per workspace when handle_click reads it.   *)
(* A click position is named by the label it lies on, NumWorkspaces when   *)
(* it lies on none.                                                        *)
(***************************************************************************)
TopPanel_handle_button_press(W, x) == [W EXCEPT !.top_panel.deferred_click_x = Some(x)]

TopPanel_request_redraw(W) ==
    LET W1 == [W EXCEPT !.top_panel.need_redraw = FALSE, !.top_panel.deferred_click_x = None]
        click == W.top_panel.deferred_click_x
        W2 == IF IsSome(click) /\ Unwrap(click) < NumWorkspaces
              THEN change_active_workspace(W1, Unwrap(click))
              ELSE W1
    IN  IF ~Ok(W2) THEN W2 ELSE [W2 EXCEPT !.top_panel.need_redraw = FALSE]

(***************************************************************************)
(* wm.rs / client.rs: request_redraw                                       *)
(***************************************************************************)
\* request_redraw that also repaints a maximized client
Client_request_redraw_paints_maximized(W, id, is_active) ==
    IF ~W.clients[id].need_redraw THEN W
    ELSE [W EXCEPT !.clients[id].need_redraw = FALSE,
                   !.cmds = Append(@, Cmd("draw_titlebar", container_id(id),
                                          IF is_active THEN 1 ELSE 0))]

\* the repaint of the decoration is logged as draw_titlebar on the container,
\* with 1 for a titlebar painted as active and 0 otherwise
Client_request_redraw(W, id, is_active) ==
    IF ~W.clients[id].need_redraw \/ W.clients[id].maximized THEN W
    ELSE [W EXCEPT !.clients[id].need_redraw = FALSE,
                   !.cmds = Append(@, Cmd("draw_titlebar", container_id(id),
                                          IF is_active THEN 1 ELSE 0))]

RECURSIVE request_redraw_from(_, _, _)
request_redraw_from(W, stack, index) ==
    IF index >= Len(stack) THEN W
    ELSE request_redraw_from(Client_request_redraw(W, At(stack, index), index = Len(stack) - 1),
                             stack, index + 1)

Wm_request_redraw(W) == request_redraw_from(W, active_stack(W), 0)

\* one pass of main's loop before it waits for events
redraw_pass(W) ==
    LET W1 == TopPanel_request_redraw(W)
        W2 == IF Ok(W1) THEN BottomPanel_request_redraw(W1) ELSE W1
    IN  IF Ok(W2) THEN Wm_request_redraw(W2) ELSE W2

(***************************************************************************)
(* wm.rs: the session file.  serialize builds the SerializedState that     *)
(* serde_json writes; Wm::new reads it back (or the default).              *)
(***************************************************************************)
SerializedClient(id, c) ==
    [id |-> id, x |-> c.x, y |-> c.y, width |-> c.width, height |-> c.height,
     maximized |-> c.maximized]

serialize(W) ==
    [active_workspace_index |-> W.active_workspace_index,
     workspaces |-> [i \in WorkspaceIndices |->
        [stack |-> [k \in 1..Len(W.workspaces[i].stack) |->
                        SerializedClient(W.workspaces[i].stack[k],
                                         W.clients[W.workspaces[i].stack[k]])],
         tasklist |-> W.workspaces[i].tasklist]]]

\* Length in bytes of the compact JSON text serde_json produces.
RECURSIVE DecimalLen(_)
DecimalLen(n) == IF n < 0 THEN 1 + DecimalLen(-n)
                 ELSE IF n < 10 THEN 1 ELSE 1 + DecimalLen(n \div 10)

Commas(s) == IF Len(s) = 0 THEN 0 ELSE Len(s) - 1

JsonClientLen(c) ==
    49 + DecimalLen(c.id) + DecimalLen(c.x) + DecimalLen(c.y) + DecimalLen(c.width)
       + DecimalLen(c.height) + (IF c.maximized THEN 4 ELSE 5)

RECURSIVE JsonClientsLen(_)
JsonClientsLen(s) == IF s = <<>> THEN 0 ELSE JsonClientLen(Head(s)) + JsonClientsLen(Tail(s))
RECURSIVE JsonIdsLen(_)
JsonIdsLen(s) == IF s = <<>> THEN 0 ELSE DecimalLen(Head(s)) + JsonIdsLen(Tail(s))

JsonWorkspaceLen(w) ==
    26 + JsonClientsLen(w.stack) + Commas(w.stack) + JsonIdsLen(w.tasklist) + Commas(w.tasklist)

RECURSIVE JsonWorkspacesLen(_, _)
JsonWorkspacesLen(ws, i) ==
    IF i >= NumWorkspaces THEN 0 ELSE JsonWorkspaceLen(ws[i]) + JsonWorkspacesLen(ws, i + 1)

JsonLen(st) ==
    43 + DecimalLen(st.active_workspace_index) + (NumWorkspaces - 1)
       + JsonWorkspacesLen(st.workspaces, 0)

\* serde_json::to_writer(.., &state): the JSON value written, the nine
\* workspaces as an array
to_writer(st) ==
    [workspaces |-> [k \in 1..NumWorkspaces |-> st.workspaces[k - 1]],
     active_workspace_index |-> st.active_workspace_index]

\* u32: the ids of the model stay far below 2^32, so only the sign is tested
FitsU32(n) == 0 <= n

\* what Deserialize accepts for a SerializedClient and a SerializedWorkspace
deserializes_client(c) ==
    /\ FitsU32(c.id)
    /\ FitsI16(c.x) /\ FitsI16(c.y)
    /\ FitsU16(c.width) /\ FitsU16(c.height)
    /\ c.maximized \in BOOLEAN
deserializes_workspace(w) ==
    /\ \A k \in 1..Len(w.stack) : deserializes_client(w.stack[k])
    /\ \A k \in 1..Len(w.tasklist) : FitsU32(w.tasklist[k])

\* serde_json::from_reader::<SerializedState>: Some(state), or None when the
\* text is not one
from_reader(json) ==
    IF /\ Len(json.workspaces) = NumWorkspaces
       /\ \A k \in 1..Len(json.workspaces) : deserializes_workspace(json.workspaces[k])
       /\ json.active_workspace_index >= 0
    THEN Some([workspaces |-> [i \in WorkspaceIndices |-> json.workspaces[i + 1]],
               active_workspace_index |-> json.active_workspace_index])
    ELSE None

\* The session file: whether it exists, and the JSON value its text holds
\* (None: the text is empty or cut short).
NoFile == [exists |-> FALSE, text |-> None]
CorruptFile == [exists |-> TRUE, text |-> None]
SessionFile(st) == [exists |-> TRUE, text |-> Some(to_writer(st))]

\* File::open(..).ok().and_then(|f| from_reader(f).ok())
open_and_parse(f) == IF f.exists /\ IsSome(f.text) THEN from_reader(Unwrap(f.text)) ELSE None

\* .. .unwrap_or_default()
read_serialized_state(f) ==
    IF IsSome(open_and_parse(f)) THEN Unwrap(open_and_parse(f)) ELSE DefaultSerializedState

(***************************************************************************)
(* wm.rs: Wm::new, Wm::init, manage_existing_client.                       *)
(* attrs: what the display server reports for each window id at startup:   *)
(* "absent" (not a child of the root), "viewable", "unmapped", or          *)
(* "override_redirect".  geometry: its get_window_geometry replies.        *)
(***************************************************************************)
WindowStates == {"absent", "viewable", "unmapped", "override_redirect"}

\* the maximized flag of a window found at startup without a session entry
existing_client_maximized(geometry) ==
    geometry.width = screen_width /\ geometry.height = maximized_height

\* manage_existing_client without the test of override_redirect
manage_existing_client_adopts_override(W, info, attrs, geometry, oc) ==
    IF attrs[info.id] = "unmapped" THEN [W |-> W, some |-> FALSE]
    ELSE IF info.kind = "Id"
    THEN LET g == geometry[info.id]
         IN  [W |-> Client_new(W, info.id, g.x, g.y, g.width, g.height,
                               existing_client_maximized(g), oc),
              some |-> TRUE]
    ELSE LET c == info.client
         IN  [W |-> Client_new(W, c.id, c.x, c.y, c.width, c.height, c.maximized, oc),
              some |-> TRUE]

\* Some(W with the Client constructed) or None; a panic is left in W.
manage_existing_client(W, info, attrs, geometry, oc) ==
    IF attrs[info.id] = "unmapped" THEN [W |-> W, some |-> FALSE]
    ELSE IF attrs[info.id] = "override_redirect" THEN [W |-> W, some |-> FALSE]
    ELSE IF info.kind = "Id"
    THEN LET g == geometry[info.id]
         IN  [W |-> Client_new(W, info.id, g.x, g.y, g.width, g.height,
                               existing_client_maximized(g), oc),
              some |-> TRUE]
    ELSE LET c == info.client
         IN  [W |-> Client_new(W, c.id, c.x, c.y, c.width, c.height, c.maximized, oc),
              some |-> TRUE]

\* the loop over one serialized stack without the test on the ids the
\* display server lists
RECURSIVE init_stack_unchecked(_, _, _, _, _, _)
init_stack_unchecked(A, workspace_index, stack, k, attrs, oc) ==
    IF k > Len(stack) \/ ~Ok(A.W) THEN A
    ELSE
    LET client == stack[k]
        existing == A.existing \ {client.id}
        m == manage_existing_client(A.W, [kind |-> "Serialized", id |-> client.id,
                                          client |-> client], attrs, <<>>, oc)
    IN  IF ~m.some \/ ~Ok(m.W)
        THEN init_stack_unchecked([W |-> m.W, existing |-> existing],
                                  workspace_index, stack, k + 1, attrs, oc)
        ELSE
        LET W1 == IF workspace_index = m.W.active_workspace_index
                  THEN Emit(m.W, << Cmd("map_window", container_id(client.id), 0) >>)
                  ELSE m.W
            W2 == [W1 EXCEPT !.workspaces[workspace_index].stack = Append(@, client.id)]
        IN  init_stack_unchecked([W |-> W2, existing |-> existing],
                                 workspace_index, stack, k + 1, attrs, oc)

\* the loop over one serialized stack; A = [W, existing]
RECURSIVE init_stack(_, _, _, _, _, _)
init_stack(A, workspace_index, stack, k, attrs, oc) ==
    IF k > Len(stack) \/ ~Ok(A.W) THEN A
    ELSE
    LET client == stack[k]
    IN  IF client.id \notin A.existing
        THEN init_stack(A, workspace_index, stack, k + 1, attrs, oc)
        ELSE
        LET existing == A.existing \ {client.id}
            m == manage_existing_client(A.W, [kind |-> "Serialized", id |-> client.id,
                                              client |-> client], attrs, <<>>, oc)
        IN  IF ~m.some \/ ~Ok(m.W)
            THEN init_stack([W |-> m.W, existing |-> existing],
                            workspace_index, stack, k + 1, attrs, oc)
            ELSE
            LET W1 == IF workspace_index = m.W.active_workspace_index
                      THEN Emit(m.W, << Cmd("map_window", container_id(client.id), 0) >>)
                      ELSE m.W
                W2 == [W1 EXCEPT !.workspaces[workspace_index].stack = Append(@, client.id)]
            IN  init_stack([W |-> W2, existing |-> existing],
                           workspace_index, stack, k + 1, attrs, oc)

\* the tasklist rebuilt in the order of the stack
init_tasklist_from_stack(W, workspace_index, tasklist, k) ==
    [W EXCEPT !.workspaces[workspace_index].tasklist = W.workspaces[workspace_index].stack]

\* the loop over one serialized tasklist
RECURSIVE init_tasklist(_, _, _, _)
init_tasklist(W, workspace_index, tasklist, k) ==
    IF k > Len(tasklist) THEN W
    ELSE IF tasklist[k] \in Range(W.workspaces[workspace_index].stack)
    THEN init_tasklist([W EXCEPT !.workspaces[workspace_index].tasklist = Append(@, tasklist[k])],
                       workspace_index, tasklist, k + 1)
    ELSE init_tasklist(W, workspace_index, tasklist, k + 1)

RECURSIVE init_workspaces(_, _, _, _, _)
init_workspaces(A, workspace_index, serialized_workspaces, attrs, oc) ==
    IF workspace_index >= NumWorkspaces \/ ~Ok(A.W) THEN A
    ELSE
    LET A1 == init_stack(A, workspace_index, serialized_workspaces[workspace_index].stack,
                         1, attrs, oc)
        A2 == IF Ok(A1.W)
              THEN [A1 EXCEPT !.W = init_tasklist(A1.W, workspace_index,
                                        serialized_workspaces[workspace_index].tasklist, 1)]
              ELSE A1
    IN  init_workspaces(A2, workspace_index + 1, serialized_workspaces, attrs, oc)

\* the loop over the ids left in the HashSet, in the order it yields them
RECURSIVE init_existing(_, _, _, _, _, _)
init_existing(W, order, k, attrs, geometry, oc) ==
    IF k > Len(order) \/ ~Ok(W) THEN W
    ELSE
    LET id == order[k]
        m == manage_existing_client(W, [kind |-> "Id", id |-> id], attrs, geometry, oc)
    IN  IF ~m.some \/ ~Ok(m.W) THEN init_existing(m.W, order, k + 1, attrs, geometry, oc)
        ELSE
        LET awi == m.W.active_workspace_index
            W1 == Emit(m.W, << Cmd("map_window", container_id(id), 0) >>)
            W2 == [W1 EXCEPT !.workspaces[awi].stack = Append(@, id),
                             !.workspaces[awi].tasklist = Append(@, id)]
        IN  init_existing(W2, order, k + 1, attrs, geometry, oc)

get_window_children(attrs) == {w \in DOMAIN attrs : attrs[w] # "absent"}

\* the first half of init: the serialized workspaces
init_serialized(W, serialized_workspaces, attrs, oc) ==
    init_workspaces([W |-> W, existing |-> get_window_children(attrs)],
                    0, serialized_workspaces, attrs, oc)

\* the second half of init
init_rest(A, order, attrs, geometry, oc) ==
    IF ~Ok(A.W) THEN A.W
    ELSE IF A.W.active_workspace_index >= NumWorkspaces THEN Panic(A.W, "index_out_of_bounds")
    ELSE LET W1 == init_existing(A.W, order, 1, attrs, geometry, oc)
         IN  IF ~Ok(W1) THEN W1 ELSE set_focus(W1, VecLast(active_stack(W1)))

\* Wm::new, then TopPanel::new and BottomPanel::new (App::new)
BootWorld ==
    [workspaces |-> EmptyWorkspaces, clients |-> <<>>,
     active_workspace_index |-> 0, drag_state |-> None, focus |-> None,
     top_panel |-> [need_redraw |-> TRUE, deferred_click_x |-> None],
     bottom_panel |-> [need_redraw |-> TRUE, layout |-> <<>>],
     cmds |-> <<>>, panic |-> "none"]

\* Wm::new with unwrap() where the code has unwrap_or_default()
Wm_new_unwrap(f) ==
    IF IsSome(open_and_parse(f))
    THEN [BootWorld EXCEPT !.active_workspace_index = Unwrap(open_and_parse(f)).active_workspace_index]
    ELSE Panic(BootWorld, "unwrap_none")

\* Wm::new up to the call of init: the fields of the new Wm
Wm_new(f) ==
    [BootWorld EXCEPT !.active_workspace_index = read_serialized_state(f).active_workspace_index]

(***************************************************************************)
(* Inputs.                                                                 *)
(***************************************************************************)
\* get_window_geometry replies of the windows of the model
WindowGeometries(id) ==
    CASE id = 1 -> { [x |-> 50, y |-> 70, width |-> 800, height |-> 600],
                     [x |-> 0, y |-> 0, width |-> 800, height |-> 600] }
      [] id = 2 -> { [x |-> 0, y |-> 0, width |-> screen_width, height |-> 600] }
      [] id = 3 -> { [x |-> 10, y |-> 10, width |-> 40000, height |-> 600] }
      [] OTHER  -> { [x |-> 0, y |-> 0, width |-> 640, height |-> 480] }

GeometryReplies ==
    {g \in [Windows -> UNION {WindowGeometries(w) : w \in Windows}] :
        \A w \in Windows : g[w] \in WindowGeometries(w)}

EventWindows == Windows \cup Containers

\* the Number keys tried, and the labels of the top panel clicked
KeyNumbers == {1, 2, NumWorkspaces}
KeyPresses ==
    {[key |-> k, number |-> 0, is_shift |-> sh] : k \in {"K", "J"}, sh \in BOOLEAN}
    \cup {[key |-> "Number", number |-> n, is_shift |-> sh] : n \in KeyNumbers, sh \in BOOLEAN}
    \cup {[key |-> k, number |-> 0, is_shift |-> FALSE] : k \in {"Right", "Left", "X", "M", "Other"}}

PointerSamples ==
    { [root_x |-> 100, root_y |-> 100, event_x |-> 10, event_y |-> 10],
      [root_x |-> 150, root_y |-> 100, event_x |-> 10, event_y |-> 200],
      [root_x |-> 150, root_y |-> 20, event_x |-> 2000, event_y |-> 10] }

PointerEvents ==
    {[event |-> w, detail |-> b, mod4 |-> m, root_x |-> p.root_x, root_y |-> p.root_y,
      event_x |-> p.event_x, event_y |-> p.event_y] :
        w \in EventWindows, b \in {1, 2, 3}, m \in BOOLEAN, p \in PointerSamples}

ConfigureRequests ==
    {[window |-> w, value_mask |-> vm, width |-> 640, height |-> 480] :
        w \in Windows, vm \in {{}, {"X", "Y"}, {"WIDTH"}, {"WIDTH", "HEIGHT"}}}

Atoms == {"WM_CLASS", "_NET_WM_NAME", "_NET_WM_ICON", "WM_HINTS"}
BottomPanelClicks == {10, 310, 1000}
TopPanelClicks == {1, NumWorkspaces - 1, NumWorkspaces}

\* what a handler can do: its result where overflow checks are compiled in,
\* and, when that is an overflow panic, also its result with wrapping
Outcomes(checked, wrapping) ==
    {checked} \cup (IF checked.panic = "overflow" THEN {wrapping} ELSE {})

(***************************************************************************)
(* Init and the actions.                                                   *)
(***************************************************************************)
Last(op, window, arg, cmds) == [op |-> op, window |-> window, arg |-> arg, cmds |-> cmds]

Init ==
    /\ pc = "boot"
    /\ panic = "none"
    /\ workspaces = BootWorld.workspaces
    /\ clients = BootWorld.clients
    /\ active_workspace_index = BootWorld.active_workspace_index
    /\ drag_state = BootWorld.drag_state
    /\ focus = BootWorld.focus
    /\ top_panel = BootWorld.top_panel
    /\ bottom_panel = BootWorld.bottom_panel
    /\ file = NoFile
    /\ saved = None
    /\ last = Last("None", 0, <<>>, <<>>)
    /\ fuel = MaxEvents

\* the state a handler leaves
Apply(W, next_pc, op, window, arg) ==
    /\ workspaces' = W.workspaces
    /\ clients' = W.clients
    /\ active_workspace_index' = W.active_workspace_index
    /\ drag_state' = W.drag_state
    /\ focus' = W.focus
    /\ top_panel' = W.top_panel
    /\ bottom_panel' = W.bottom_panel
    /\ panic' = W.panic
    /\ pc' = IF Ok(W) THEN next_pc ELSE "dead"
    /\ last' = Last(op, window, arg, W.cmds)
    /\ fuel' = fuel - 1

\* main up to its first wait for events: App::new (Wm::new with Wm::init,
\* then the panels) and the first redraw pass of the loop
startup(A, order, attrs, geometry, oc) ==
    LET W == init_rest(A, order, attrs, geometry, oc)
    IN  IF Ok(W) THEN redraw_pass(W) ELSE W

Startup ==
    /\ pc = "boot"
    /\ fuel > 0
    /\ \E attrs \in [Windows -> WindowStates], geometry \in GeometryReplies, oc \in BOOLEAN :
         LET A == init_serialized(Wm_new(file), read_serialized_state(file).workspaces, attrs, oc)
         IN  \E order \in Orderings(A.existing) :
                Apply(startup(A, order, attrs, geometry, oc), "events", "Startup", 0, attrs)
    /\ UNCHANGED <<file, saved>>

\* main: the redraw pass at the top of the loop, after a batch of events
RedrawPass ==
    /\ pc = "events"
    /\ fuel > 0
    /\ Apply(redraw_pass(World), "events", "RedrawPass", 0, <<>>)
    /\ UNCHANGED <<file, saved>>

MapRequest ==
    /\ pc = "events"
    /\ fuel > 0
    /\ \E id \in Windows :
         \E geometry \in WindowGeometries(id) :
            \E W \in Outcomes(handle_map_request(World, id, geometry, TRUE), handle_map_request(World, id, geometry, FALSE)) :
                Apply(W, "events", "MapRequest", id,
                      IF client_already_managed(World, id) THEN None ELSE Some(geometry))
    /\ UNCHANGED <<file, saved>>

UnmapNotify ==
    /\ pc = "events"
    /\ fuel > 0
    /\ \E window \in EventWindows :
         Apply(handle_unmap_notify(World, window), "events", "UnmapNotify", window, <<>>)
    /\ UNCHANGED <<file, saved>>

KeyPress ==
    /\ pc = "events"
    /\ fuel > 0
    /\ \E k \in KeyPresses :
         \E W \in Outcomes(handle_key_press(World, k.key, k.number, k.is_shift, TRUE), handle_key_press(World, k.key, k.number, k.is_shift, FALSE)) :
            Apply(W, "events", "KeyPress", 0, k)
    /\ UNCHANGED <<file, saved>>

\* the Wm as save-and-restart finds it, and whether the file got its text
Snapshot(written) ==
    [written |-> written,
     workspaces |-> workspaces,
     active_workspace_index |-> active_workspace_index,
     clients |-> [w \in DOMAIN clients |->
                    [x |-> clients[w].x, y |-> clients[w].y, width |-> clients[w].width,
                     height |-> clients[w].height, maximized |-> clients[w].maximized]]]

\* handle_key_press, Keycode::Escape: write the session file, then exec
SaveAndRestart ==
    /\ pc = "events"
    /\ fuel > 0
    /\ \E create_ok, write_ok, exec_ok \in BOOLEAN :
         LET snapshot == serialize(World)
             spills == JsonLen(snapshot) > BufWriterCapacity
             result == [create_ok |-> create_ok, write_ok |-> write_ok, exec_ok |-> exec_ok]
         IN  /\ saved' = Some(Snapshot(create_ok /\ write_ok))
             /\ IF ~create_ok
                THEN /\ file' = file
                     /\ Apply(Panic(World, "file_create"), "dead", "SaveAndRestart", 0, result)
                ELSE IF spills /\ ~write_ok
                THEN /\ file' = CorruptFile
                     /\ Apply(Panic(World, "file_write"), "dead", "SaveAndRestart", 0, result)
                ELSE /\ file' = IF write_ok THEN SessionFile(snapshot) ELSE CorruptFile
                     /\ IF ~exec_ok
                        THEN Apply(Panic(World, "exec"), "dead", "SaveAndRestart", 0, result)
                        ELSE Apply(BootWorld, "boot", "SaveAndRestart", 0, result)

ButtonPress ==
    /\ pc = "events"
    /\ fuel > 0
    /\ \E ev \in PointerEvents :
         \E W \in Outcomes(handle_button_press(World, ev, TRUE), handle_button_press(World, ev, FALSE)) :
            Apply(W, "events", "ButtonPress", ev.event, <<>>)
    /\ UNCHANGED <<file, saved>>

MotionNotify ==
    /\ pc = "events"
    /\ fuel > 0
    /\ \E ev \in {e \in PointerEvents : e.detail = 1 /\ ~e.mod4} :
         \E W \in Outcomes(handle_motion_notify(World, ev, TRUE), handle_motion_notify(World, ev, FALSE)) :
            Apply(W, "events", "MotionNotify", ev.event, <<>>)
    /\ UNCHANGED <<file, saved>>

ButtonRelease ==
    /\ pc = "events"
    /\ fuel > 0
    /\ Apply(handle_button_release(World), "events", "ButtonRelease", 0, <<>>)
    /\ UNCHANGED <<file, saved>>

PropertyNotify ==
    /\ pc = "events"
    /\ fuel > 0
    /\ \E window \in Windows, atom \in Atoms :
         Apply(handle_property_notify(World, window, atom), "events", "PropertyNotify", window, <<>>)
    /\ UNCHANGED <<file, saved>>

ConfigureRequest ==
    /\ pc = "events"
    /\ fuel > 0
    /\ \E ev \in ConfigureRequests :
         \E W \in Outcomes(handle_configure_request(World, ev, TRUE), handle_configure_request(World, ev, FALSE)) :
            Apply(W, "events", "ConfigureRequest", ev.window, <<>>)
    /\ UNCHANGED <<file, saved>>

\* a primary-button press on the bottom panel: Wm::handle_button_press finds
\* no client with the panel's id, BottomPanel::handle_event routes the click
BottomPanelPress ==
    /\ pc = "events"
    /\ fuel > 0
    /\ \E root_x \in BottomPanelClicks :
         Apply(BottomPanel_handle_button_press(World, root_x), "events",
               "BottomPanelPress", bottom_panel_id, <<>>)
    /\ UNCHANGED <<file, saved>>

\* a primary-button press on the top panel
TopPanelPress ==
    /\ pc = "events"
    /\ fuel > 0
    /\ \E x \in TopPanelClicks :
         Apply(TopPanel_handle_button_press(World, x), "events", "TopPanelPress", top_panel_id, <<>>)
    /\ UNCHANGED <<file, saved>>

Next ==
    \/ Startup
    \/ RedrawPass
    \/ MapRequest
    \/ UnmapNotify
    \/ KeyPress
    \/ SaveAndRestart
    \/ ButtonPress
    \/ MotionNotify
    \/ ButtonRelease
    \/ PropertyNotify
    \/ ConfigureRequest
    \/ BottomPanelPress
    \/ TopPanelPress

Spec == Init /\ [][Next]_vars

(***************************************************************************)
(* Sessions: the same program followed further, over the operations that   *)
(* shape what a session file holds (startup, map requests, the keyboard    *)
(* commands, save-and-restart).                                            *)
(***************************************************************************)
InitSession ==
    /\ pc = "boot"
    /\ panic = "none"
    /\ workspaces = BootWorld.workspaces
    /\ clients = BootWorld.clients
    /\ active_workspace_index = BootWorld.active_workspace_index
    /\ drag_state = BootWorld.drag_state
    /\ focus = BootWorld.focus
    /\ top_panel = BootWorld.top_panel
    /\ bottom_panel = BootWorld.bottom_panel
    /\ file = NoFile
    /\ saved = None
    /\ last = Last("None", 0, <<>>, <<>>)
    /\ fuel = MaxSessionEvents

NextSession ==
    \/ Startup
    \/ MapRequest
    \/ KeyPress
    \/ SaveAndRestart

SpecSession == InitSession /\ [][NextSession]_vars

(***************************************************************************)
(* util.rs on its own: a slice length and an index into it, and the two    *)
(* functions applied to the index again and again.  The pair is kept in    *)
(* last.arg; the Wm is not constructed.                                    *)
(***************************************************************************)
CycleInput(len, current) == [len |-> len, current |-> current]

InitCycle ==
    /\ pc = "cycle"
    /\ panic = "none"
    /\ workspaces = BootWorld.workspaces
    /\ clients = BootWorld.clients
    /\ active_workspace_index = BootWorld.active_workspace_index
    /\ drag_state = BootWorld.drag_state
    /\ focus = BootWorld.focus
    /\ top_panel = BootWorld.top_panel
    /\ bottom_panel = BootWorld.bottom_panel
    /\ file = NoFile
    /\ saved = None
    /\ fuel = 0
    /\ \E len \in 1..MaxCycleLen, current \in 0..(MaxCycleLen - 1) :
         /\ current < len
         /\ last = Last("None", 0, CycleInput(len, current), <<>>)

CycleNext ==
    /\ pc = "cycle"
    /\ last' = Last("cycle_next", 0,
                    CycleInput(last.arg.len, cycle_next(last.arg.len, last.arg.current)), <<>>)
    /\ UNCHANGED <<pc, panic, workspaces, clients, active_workspace_index, drag_state,
                   focus, top_panel, bottom_panel, file, saved, fuel>>

CyclePrevious ==
    /\ pc = "cycle"
    /\ last' = Last("cycle_previous", 0,
                    CycleInput(last.arg.len, cycle_previous(last.arg.len, last.arg.current)), <<>>)
    /\ UNCHANGED <<pc, panic, workspaces, clients, active_workspace_index, drag_state,
                   focus, top_panel, bottom_panel, file, saved, fuel>>

NextCycle ==
    \/ CycleNext
    \/ CyclePrevious

SpecCycle == InitCycle /\ [][NextCycle]_vars

(***************************************************************************)
(* Startup from a session file the program did not write: any text that    *)
(* from_reader accepts.  The stack and tasklist lists of workspaces 0 and 1 *)
(* are arbitrary lists over two window ids, so an id can be missing from a  *)
(* tasklist, listed twice, or listed in both workspaces.                    *)
(***************************************************************************)
ForeignIds == {1, 2}

\* the stack entry a foreign file holds for a window id
ForeignClient(id) ==
    [id |-> id, x |-> 20 * id, y |-> 40, width |-> 300, height |-> 200, maximized |-> (id = 2)]

BoundedSeqs(S, n) == UNION {[1..k -> S] : k \in 0..n}

ForeignWorkspaces(n) ==
    {[stack |-> [k \in 1..Len(ids) |-> ForeignClient(ids[k])], tasklist |-> tasklist] :
        ids \in BoundedSeqs(ForeignIds, n), tasklist \in BoundedSeqs(ForeignIds, n)}

ForeignStates ==
    {[workspaces |-> [i \in WorkspaceIndices |->
                        IF i = 0 THEN w0 ELSE IF i = 1 THEN w1 ELSE EmptyWorkspace],
      active_workspace_index |-> awi] :
        w0 \in ForeignWorkspaces(MaxForeignLen), w1 \in ForeignWorkspaces(1),
        awi \in {0, 1, NumWorkspaces}}

ForeignFiles == {SessionFile(st) : st \in ForeignStates}

InitForeign ==
    /\ pc = "boot"
    /\ panic = "none"
    /\ workspaces = BootWorld.workspaces
    /\ clients = BootWorld.clients
    /\ active_workspace_index = BootWorld.active_workspace_index
    /\ drag_state = BootWorld.drag_state
    /\ focus = BootWorld.focus
    /\ top_panel = BootWorld.top_panel
    /\ bottom_panel = BootWorld.bottom_panel
    /\ file \in ForeignFiles
    /\ saved = None
    /\ last = Last("None", 0, <<>>, <<>>)
    /\ fuel = 1

NextForeign == Startup

SpecForeign == InitForeign /\ [][NextForeign]_vars

(***************************************************************************)
(* Pointer drags at greater depth: startup without a session file, then    *)
(* button presses, motions, releases and key presses only.                 *)
(***************************************************************************)
InitDrag ==
    /\ pc = "boot"
    /\ panic = "none"
    /\ workspaces = BootWorld.workspaces
    /\ clients = BootWorld.clients
    /\ active_workspace_index = BootWorld.active_workspace_index
    /\ drag_state = BootWorld.drag_state
    /\ focus = BootWorld.focus
    /\ top_panel = BootWorld.top_panel
    /\ bottom_panel = BootWorld.bottom_panel
    /\ file = NoFile
    /\ saved = None
    /\ last = Last("None", 0, <<>>, <<>>)
    /\ fuel = MaxDragEvents

NextDrag ==
    \/ Startup
    \/ ButtonPress
    \/ MotionNotify
    \/ ButtonRelease
    \/ KeyPress

SpecDrag == InitDrag /\ [][NextDrag]_vars

(***************************************************************************)
(* Properties.                                                             *)
(***************************************************************************)
Consistent(ws) ==
    \A i \in WorkspaceIndices :
        /\ Range(ws[i].stack) = Range(ws[i].tasklist)
        /\ NoDuplicates(ws[i].stack)
        /\ NoDuplicates(ws[i].tasklist)

HandleEventOps ==
    {"MapRequest", "UnmapNotify", "KeyPress", "ButtonPress", "MotionNotify",
     "ButtonRelease", "PropertyNotify", "ConfigureRequest"}

Managed(id) == \E i \in WorkspaceIndices : id \in Range(workspaces[i].stack)

SentCommand(name) == \E k \in 1..Len(last.cmds) : last.cmds[k][1] = name

\* C1: from a state where every workspace's stack and tasklist hold the same
\* ids without duplicates, every event handled by handle_event leaves such a
\* state again.
C1_StackTasklistPreserved ==
    [][(Consistent(workspaces) /\ last'.op \in HandleEventOps /\ pc' = "events")
        => Consistent(workspaces')]_vars

\* a client has just been moved to workspace 1 while another stays in 0
C1_Witness ==
    /\ pc = "events"
    /\ last.op = "KeyPress"
    /\ last.arg.key = "Number" /\ last.arg.is_shift
    /\ workspaces[1].stack # <<>>
    /\ workspaces[0].stack # <<>>

\* C2: after startup and after every handled event (a panel's click
\* included) the last set_focus named the last client of the active
\* workspace's stack, or nothing when that stack is empty.
C2_FocusIsStackLast ==
    pc = "events" => focus = VecLast(workspaces[active_workspace_index].stack)

\* a click on the bottom panel has just raised and focused a client
C2_Witness ==
    /\ pc = "events"
    /\ last.op = "BottomPanelPress"
    /\ SentCommand("set_focus")
    /\ IsSome(focus)

\* C3: when save-and-restart wrote the state S and the next startup finds
\* exactly the windows of S, all mapped and none override-redirect, the Wm
\* it builds has S's active workspace index, stacks, tasklists, and every
\* client's x, y, width, height and maximized flag.
C3_SessionRoundTrip ==
    (/\ last.op = "Startup"
     /\ IsSome(saved)
     /\ Unwrap(saved).written
     /\ \A w \in Windows :
            last.arg[w] = IF w \in DOMAIN Unwrap(saved).clients THEN "viewable" ELSE "absent")
    => LET S == Unwrap(saved)
       IN  /\ pc = "events"
           /\ active_workspace_index = S.active_workspace_index
           /\ \A i \in WorkspaceIndices :
                /\ workspaces[i].stack = S.workspaces[i].stack
                /\ workspaces[i].tasklist = S.workspaces[i].tasklist
           /\ DOMAIN clients = DOMAIN S.clients
           /\ \A w \in DOMAIN S.clients :
                /\ clients[w].x = S.clients[w].x
                /\ clients[w].y = S.clients[w].y
                /\ clients[w].width = S.clients[w].width
                /\ clients[w].height = S.clients[w].height
                /\ clients[w].maximized = S.clients[w].maximized

\* a restart has rebuilt a workspace whose tasklist order differs from its
\* stack order
C3_Witness ==
    /\ pc = "events"
    /\ last.op = "Startup"
    /\ IsSome(saved)
    /\ Unwrap(saved).written
    /\ \A w \in Windows :
            last.arg[w] = IF w \in DOMAIN Unwrap(saved).clients THEN "viewable" ELSE "absent"
    /\ Len(workspaces[0].stack) >= 2
    /\ workspaces[0].stack # workspaces[0].tasklist

\* C4: save-and-restart replaces the process image only when the session
\* file was created and every write of the snapshot to it succeeded.
C4_ExecOnlyAfterWrite ==
    (last.op = "SaveAndRestart" /\ pc = "boot")
    => (last.arg.create_ok /\ last.arg.write_ok)

\* C5: no event ends the process; only startup and save-and-restart can.
C5_EventsNeverFail ==
    pc = "dead" => last.op \in {"Startup", "SaveAndRestart"}

\* C6: with the session file missing or not parsing, startup completes with
\* active workspace 0, every mapped, not override-redirect top-level window
\* adopted into workspace 0 as the display server describes it, and nothing
\* else adopted anywhere.
C6_StartupWithoutSession ==
    (last.op = "Startup" /\ ~IsSome(open_and_parse(file)))
    => LET adopted == {w \in Windows : last.arg[w] = "viewable"}
       IN  /\ pc = "events"
           /\ active_workspace_index = 0
           /\ Range(workspaces[0].stack) = adopted
           /\ Range(workspaces[0].tasklist) = adopted
           /\ NoDuplicates(workspaces[0].stack)
           /\ NoDuplicates(workspaces[0].tasklist)
           /\ \A i \in WorkspaceIndices \ {0} : workspaces[i] = EmptyWorkspace
           /\ DOMAIN clients = adopted
           /\ \A w \in adopted :
                \E g \in WindowGeometries(w) :
                    /\ clients[w].x = g.x /\ clients[w].y = g.y
                    /\ clients[w].width = g.width /\ clients[w].height = g.height

\* a startup over a session file that does not parse, with a window to
\* adopt and a window to leave alone
C6_Witness ==
    /\ pc = "events"
    /\ last.op = "Startup"
    /\ file.exists
    /\ ~IsSome(open_and_parse(file))
    /\ \E w \in Windows : last.arg[w] = "viewable"
    /\ \E w \in Windows : last.arg[w] \in {"unmapped", "override_redirect"}

\* C7: at startup a serialized client whose window the display server does
\* not list is in no stack and no tasklist, a serialized client whose window
\* is listed and mapped is adopted into its workspace with its serialized
\* fields, and startup completes; one serialized client in workspace 0 and
\* no window at all leave workspace 0 empty.
C7_MissingWindowSkipped ==
    (last.op = "Startup" /\ IsSome(open_and_parse(file)))
    => LET S == Unwrap(open_and_parse(file))
       IN  /\ pc = "events"
           /\ \A i \in WorkspaceIndices :
                \A k \in 1..Len(S.workspaces[i].stack) :
                    LET c == S.workspaces[i].stack[k]
                    IN  /\ last.arg[c.id] = "absent"
                            => /\ c.id \notin DOMAIN clients
                               /\ \A j \in WorkspaceIndices :
                                    /\ c.id \notin Range(workspaces[j].stack)
                                    /\ c.id \notin Range(workspaces[j].tasklist)
                        /\ last.arg[c.id] = "viewable"
                            => /\ c.id \in Range(workspaces[i].stack)
                               /\ c.id \in Range(workspaces[i].tasklist)
                               /\ SerializedClient(c.id, clients[c.id]) = c
           /\ (/\ Len(S.workspaces[0].stack) = 1
               /\ \A w \in Windows : last.arg[w] = "absent")
              => workspaces[0] = EmptyWorkspace

\* a startup over a session whose workspace 0 names two clients, one gone
\* and one still there
C7_Witness ==
    /\ pc = "events"
    /\ last.op = "Startup"
    /\ IsSome(open_and_parse(file))
    /\ LET stack == Unwrap(open_and_parse(file)).workspaces[0].stack
       IN  /\ Len(stack) = 2
           /\ \E a, b \in 1..2 :
                /\ last.arg[stack[a].id] = "absent"
                /\ last.arg[stack[b].id] = "viewable"
                /\ workspaces[0].stack = << stack[b].id >>

\* C8: a map request for an unmanaged window puts the new client last in
\* the active stack and right after the previously focused client in the
\* tasklist (alone when the workspace was empty); the entries that were
\* there keep their order and no other workspace changes.
C8_MapRequestPlacement ==
    [][(last'.op = "MapRequest" /\ pc' = "events" /\ ~Managed(last'.window))
        => LET id == last'.window
               awi == active_workspace_index
               old == workspaces[awi]
               new == workspaces'[awi]
           IN  /\ active_workspace_index' = awi
               /\ new.stack = Append(old.stack, id)
               /\ IF old.stack = <<>>
                  THEN new.tasklist = << id >>
                  ELSE /\ IsSome(focus)
                       /\ \E k \in 1..Len(old.tasklist) :
                            /\ old.tasklist[k] = Unwrap(focus)
                            /\ new.tasklist = SubSeq(old.tasklist, 1, k) \o << id >>
                                               \o SubSeq(old.tasklist, k + 1, Len(old.tasklist))
               /\ \A i \in WorkspaceIndices \ {awi} : workspaces'[i] = workspaces[i]]_vars

\* a map request has put the new client between two older tasklist entries
C8_Witness ==
    /\ pc = "events"
    /\ last.op = "MapRequest"
    /\ IsSome(last.arg)
    /\ LET tasklist == workspaces[active_workspace_index].tasklist
       IN  /\ Len(tasklist) = 3
           /\ tasklist[2] = last.window
    /\ focus = Some(last.window)

\* C9: a map request for an unmanaged window whose width is not the screen
\* width gives the client the queried width and height and
\* x = (screen_width - width) / 2, whatever position the window had.
C9_MapRequestCentered ==
    (/\ pc = "events"
     /\ last.op = "MapRequest"
     /\ IsSome(last.arg)
     /\ Unwrap(last.arg).width # screen_width)
    => LET g == Unwrap(last.arg)
           c == clients[last.window]
       IN  /\ c.width = g.width
           /\ c.height = g.height
           /\ c.x = RustDiv(screen_width - g.width, 2)

\* C10: a map request for a window that is managed in any workspace changes
\* no stack, tasklist, client, focus or drag state and sends nothing.
C10_MapRequestManagedIgnored ==
    [][(last'.op = "MapRequest" /\ Managed(last'.window))
        => /\ pc' = "events"
           /\ UNCHANGED <<workspaces, clients, active_workspace_index, focus, drag_state>>
           /\ last'.cmds = <<>>]_vars

\* a map request has come for a client that sits in workspace 1 while
\* workspace 0 is active
C10_Witness ==
    /\ pc = "events"
    /\ last.op = "MapRequest"
    /\ last.arg = None
    /\ active_workspace_index = 0
    /\ last.window \in Range(workspaces[1].stack)

Without(seq, id) == SelectSeq(seq, LAMBDA e : e # id)

SentIn(cmds, name) == \E k \in 1..Len(cmds) : cmds[k][1] = name

\* C11: an unmap notify for a managed id takes exactly that client out of
\* the stack and the tasklist of the workspace that holds it, the others
\* keeping their order and every other workspace as it was; set_focus is
\* sent, to the new stack top or none, only when that workspace is the
\* active one; an unmap notify for an unmanaged id changes nothing.
C11_UnmapRemovesClient ==
    [][(last'.op = "UnmapNotify" /\ pc' = "events")
        => LET id == last'.window
           IN  IF Managed(id)
               THEN LET i == CHOOSE i \in WorkspaceIndices : id \in Range(workspaces[i].stack)
                    IN  /\ workspaces'[i].stack = Without(workspaces[i].stack, id)
                        /\ workspaces'[i].tasklist = Without(workspaces[i].tasklist, id)
                        /\ \A j \in WorkspaceIndices \ {i} : workspaces'[j] = workspaces[j]
                        /\ active_workspace_index' = active_workspace_index
                        /\ id \notin DOMAIN clients'
                        /\ SentIn(last'.cmds, "set_focus") <=> (i = active_workspace_index)
                        /\ IF i = active_workspace_index
                           THEN focus' = VecLast(workspaces'[i].stack)
                           ELSE focus' = focus
               ELSE /\ UNCHANGED <<workspaces, clients, active_workspace_index, focus,
                                   drag_state, top_panel, bottom_panel>>
                    /\ last'.cmds = <<>>]_vars

\* an unmap notify has removed a client of a workspace that is not active
C11_Witness ==
    /\ pc = "events"
    /\ last.op = "UnmapNotify"
    /\ SentCommand("destroy_window")
    /\ ~SentCommand("set_focus")
    /\ last.window \notin DOMAIN clients
    /\ workspaces[active_workspace_index].stack # <<>>

\* C12: raise_client on the index of the topmost client of the active
\* workspace changes nothing: stack, tasklist, focus and dirty flags stay,
\* and no request is sent.
C12_RaiseTopmostNoOp ==
    (pc = "events" /\ workspaces[active_workspace_index].stack # <<>>)
    => raise_client(World, Len(workspaces[active_workspace_index].stack) - 1) = World

\* a press on the window of the client that is already on top, with another
\* client below it: the handler called raise_client and sent no raise
C12_Witness ==
    /\ pc = "events"
    /\ last.op = "ButtonPress"
    /\ last.cmds = << Cmd("allow_pointer_events", 0, 0) >>
    /\ focus = Some(last.window)
    /\ Len(workspaces[active_workspace_index].stack) >= 2

\* the client a pointer event's window belongs to: the window itself or the
\* window whose container it is
ClientOf(window) == IF window \in Containers THEN window - ContainerIdBase ELSE window

\* what raise_client(i) must leave, for i below the topmost index
RaisedFrom(W, i, R) ==
    LET awi == W.active_workspace_index
        stack == W.workspaces[awi].stack
        client == stack[i + 1]
    IN  /\ R.panic = "none"
        /\ R.active_workspace_index = awi
        /\ R.workspaces[awi].stack = Append(Without(stack, client), client)
        /\ R.workspaces[awi].tasklist = W.workspaces[awi].tasklist
        /\ \A j \in WorkspaceIndices \ {awi} : R.workspaces[j] = W.workspaces[j]
        /\ R.focus = Some(client)
        /\ SentIn(R.cmds, "set_focus")

\* C13: raise_client on an index below the topmost one moves that client to
\* the end of the active stack, the other entries keeping their order,
\* leaves the tasklist as it was and focuses the raised client; a button
\* press that reorders the stack does exactly that to the pressed client.
C13_RaiseMovesToTop ==
    [][/\ pc = "events"
          => \A i \in 0..(Len(workspaces[active_workspace_index].stack) - 2) :
                RaisedFrom(World, i, raise_client(World, i))
       /\ (last'.op = "ButtonPress" /\ pc' = "events" /\ workspaces' # workspaces)
          => LET awi == active_workspace_index
                 id == ClientOf(last'.window)
             IN  /\ active_workspace_index' = awi
                 /\ id \in Range(workspaces[awi].stack)
                 /\ workspaces'[awi].stack = Append(Without(workspaces[awi].stack, id), id)
                 /\ workspaces'[awi].tasklist = workspaces[awi].tasklist
                 /\ \A j \in WorkspaceIndices \ {awi} : workspaces'[j] = workspaces[j]
                 /\ focus' = Some(id)]_vars

\* a press on the bottom client of three has raised it: it is last in the
\* stack, still first in the tasklist, and focused
C13_Witness ==
    /\ pc = "events"
    /\ last.op = "ButtonPress"
    /\ SentCommand("raise_window")
    /\ LET w == workspaces[active_workspace_index]
       IN  /\ Len(w.stack) = 3
           /\ w.stack[3] = ClientOf(last.window)
           /\ w.tasklist[1] = ClientOf(last.window)
    /\ focus = Some(ClientOf(last.window))

\* C14: Shift+K (Shift+J) exchanges the focused client's tasklist entry with
\* the entry at the cyclically next (previous) index and leaves the stack,
\* the other entries, the other workspaces, the clients' fields and the
\* focus as they were; in an empty workspace nothing happens.
C14_TasklistMoveSwaps ==
    [][(/\ last'.op = "KeyPress"
        /\ last'.arg.key \in {"K", "J"}
        /\ last'.arg.is_shift)
        => LET awi == active_workspace_index
               stack == workspaces[awi].stack
               tasklist == workspaces[awi].tasklist
               n == Len(tasklist)
           IN  /\ pc' = "events"
               /\ active_workspace_index' = awi
               /\ focus' = focus
               /\ drag_state' = drag_state
               /\ last'.cmds = <<>>
               /\ \A w \in DOMAIN clients :
                    /\ w \in DOMAIN clients'
                    /\ SerializedClient(w, clients'[w]) = SerializedClient(w, clients[w])
               /\ \A j \in WorkspaceIndices \ {awi} : workspaces'[j] = workspaces[j]
               /\ workspaces'[awi].stack = stack
               /\ IF stack = <<>>
                  THEN UNCHANGED <<workspaces, clients, top_panel, bottom_panel>>
                  ELSE \E i \in 1..n :
                        /\ tasklist[i] = stack[Len(stack)]
                        /\ LET other == IF last'.arg.key = "K"
                                        THEN (i % n) + 1
                                        ELSE ((i + n - 2) % n) + 1
                           IN  workspaces'[awi].tasklist =
                                 [k \in 1..n |-> IF k = i THEN tasklist[other]
                                                 ELSE IF k = other THEN tasklist[i]
                                                 ELSE tasklist[k]]]_vars

\* Shift+K has taken the focused client from the end of a tasklist of three
\* to its front, the stack keeping the old order
C14_Witness ==
    /\ pc = "events"
    /\ last.op = "KeyPress"
    /\ last.arg.key = "K" /\ last.arg.is_shift
    /\ LET w == workspaces[active_workspace_index]
       IN  /\ Len(w.tasklist) = 3
           /\ focus = Some(w.tasklist[1])
           /\ w.stack[3] = w.tasklist[1]
           /\ w.stack[1] = w.tasklist[3]
           /\ w.stack[2] = w.tasklist[2]

\* C15: for a slice of length N >= 1 and an index i in 0..N-1, cycle_previous
\* undoes cycle_next and cycle_next undoes cycle_previous, cycle_next of N-1
\* is 0, cycle_previous of 0 is N-1, and every result is an index of the
\* slice.
C15_CycleInverse ==
    pc = "cycle"
    => LET len == last.arg.len
           i == last.arg.current
       IN  /\ i \in 0..(len - 1)
           /\ cycle_next(len, i) \in 0..(len - 1)
           /\ cycle_previous(len, i) \in 0..(len - 1)
           /\ cycle_previous(len, cycle_next(len, i)) = i
           /\ cycle_next(len, cycle_previous(len, i)) = i
           /\ cycle_next(len, len - 1) = 0
           /\ cycle_previous(len, 0) = len - 1

\* cycle_next has just wrapped from the last index of a longer slice to 0
C15_Witness ==
    /\ pc = "cycle"
    /\ last.op = "cycle_next"
    /\ last.arg.len >= 3
    /\ last.arg.current = 0

\* The client after set_maximized(!m) then set_maximized(m), [panicked |-> TRUE]
\* if one of the two calls did not return
ToggledTwice(W, id, oc) ==
    LET m == W.clients[id].maximized
        W1 == Client_set_maximized(W, id, ~m, oc)
        W2 == Client_set_maximized(W1, id, m, oc)
    IN  IF W1.panic # "none" THEN [panicked |-> TRUE, first |-> W1.clients[id], second |-> W1.clients[id]]
        ELSE [panicked |-> W2.panic # "none", first |-> W1.clients[id], second |-> W2.clients[id]]

\* C16: for every managed client, set_maximized(!m) followed by
\* set_maximized(m) leaves the recorded x, y, width and height as they were
\* and the maximized flag equal to m again (the flag being !m in between);
\* both calls return, with and without overflow checks.
C16_MaximizeTwiceRestores ==
    pc = "events"
    => \A id \in DOMAIN clients : \A oc \in BOOLEAN :
          LET c == clients[id]
              t == ToggledTwice(World, id, oc)
          IN  /\ ~t.panicked
              /\ t.first.maximized = ~c.maximized
              /\ t.second.maximized = c.maximized
              /\ t.second.x = c.x /\ t.second.y = c.y
              /\ t.second.width = c.width /\ t.second.height = c.height
              /\ t.first.x = c.x /\ t.first.y = c.y
              /\ t.first.width = c.width /\ t.first.height = c.height

\* Mod+M has been pressed twice on a client placed away from the origin:
\* the second press has just unmaximized it
C16_Witness ==
    /\ pc = "events"
    /\ last.op = "KeyPress" /\ last.arg.key = "M"
    /\ IsSome(focus)
    /\ saved = None
    /\ ~clients[Unwrap(focus)].maximized
    /\ clients[Unwrap(focus)].x > 0
    /\ clients[Unwrap(focus)].width = 800
    /\ ToggledTwice(World, Unwrap(focus), TRUE).first.maximized
    /\ fuel = MaxEvents - 3
    /\ SentIn(last.cmds, "grab_button")

Max(a, b) == IF a >= b THEN a ELSE b

\* C17: a motion event handled during a Resize drag for a client of the
\* active workspace records width max(1, width + dx) and height
\* max(1, height + dy), dx and dy being the pointer position of the event
\* minus the position recorded in the drag state, and neither dimension is
\* below 1.  (The pointer positions of the model are not negative, so the
\* position the handler records is the position of the event.)
C17_ResizeDragStep ==
    [][(/\ last'.op = "MotionNotify"
        /\ pc' = "events"
        /\ IsSome(drag_state)
        /\ Unwrap(drag_state).kind = "Resize"
        /\ IsSome(position_by_window(workspaces[active_workspace_index].stack, last'.window)))
       => LET stack == workspaces[active_workspace_index].stack
              id == At(stack, Unwrap(position_by_window(stack, last'.window)))
              dx == Unwrap(drag_state').x - Unwrap(drag_state).x
              dy == Unwrap(drag_state').y - Unwrap(drag_state).y
          IN  /\ clients'[id].width = Max(1, clients[id].width + dx)
              /\ clients'[id].height = Max(1, clients[id].height + dy)
              /\ clients'[id].width >= 1
              /\ clients'[id].height >= 1]_vars

\* the events of handle_event other than button press and button release
NonButtonOps ==
    {"MapRequest", "UnmapNotify", "KeyPress", "MotionNotify", "PropertyNotify",
     "ConfigureRequest"}

\* C18: the drag state appears only in a button press on a client of the
\* active workspace (its window or its container) that is then the top of
\* the stack and not maximized; every button release leaves it absent; and
\* no key press handled by the running process, unmap, map, property,
\* configure or motion event removes it (nor a panel click or a redraw
\* pass).
C18_DragStateLifecycle ==
    [][/\ (~IsSome(drag_state) /\ IsSome(drag_state'))
          => /\ last'.op = "ButtonPress"
             /\ IsSome(position_by_window(workspaces[active_workspace_index].stack, last'.window))
             /\ active_workspace_index' = active_workspace_index
             /\ LET top == VecLast(workspaces'[active_workspace_index].stack)
                IN  /\ IsSome(top)
                    /\ last'.window \in {Unwrap(top), container_id(Unwrap(top))}
                    /\ ~clients'[Unwrap(top)].maximized
       /\ (last'.op = "ButtonRelease") => drag_state' = None
       /\ (IsSome(drag_state) /\ ~IsSome(drag_state'))
          => last'.op \in {"ButtonRelease", "SaveAndRestart"}
       /\ (IsSome(drag_state) /\ last'.op \in NonButtonOps)
          => /\ IsSome(drag_state')
             /\ Unwrap(drag_state').kind = Unwrap(drag_state).kind
             /\ (last'.op # "MotionNotify" => drag_state' = drag_state)]_vars

\* the dragged client has been unmapped and the drag state is still there
C18_Witness ==
    /\ pc = "events"
    /\ last.op = "UnmapNotify"
    /\ SentIn(last.cmds, "destroy_window")
    /\ IsSome(drag_state)
    /\ clients = <<>>

\* C19: Shift+N with N-1 not the active workspace: with an empty active
\* stack nothing changes and nothing is sent; otherwise the handler returns,
\* the top of the active stack leaves the active stack and tasklist and
\* becomes the last element of the stack and of the tasklist of workspace
\* N-1, unmap_window is sent for its container, the focus is set to the new
\* top of the active stack (or none), every other entry keeps its workspace
\* and order, and the active workspace stays as it is.
C19_MoveToOtherWorkspace ==
    [][(/\ last'.op = "KeyPress"
        /\ last'.arg.key = "Number"
        /\ last'.arg.is_shift
        /\ last'.arg.number - 1 # active_workspace_index)
       => LET awi == active_workspace_index
              target == last'.arg.number - 1
              stack == workspaces[awi].stack
              tasklist == workspaces[awi].tasklist
          IN  /\ pc' = "events"
              /\ active_workspace_index' = awi
              /\ drag_state' = drag_state
              /\ \A j \in WorkspaceIndices \ {awi, target} : workspaces'[j] = workspaces[j]
              /\ IF stack = <<>>
                 THEN /\ UNCHANGED <<workspaces, clients, focus, top_panel, bottom_panel>>
                      /\ last'.cmds = <<>>
                 ELSE LET client == stack[Len(stack)]
                      IN  /\ workspaces'[awi].stack = VecPop(stack)
                          /\ workspaces'[awi].tasklist = Without(tasklist, client)
                          /\ workspaces'[target].stack = Append(workspaces[target].stack, client)
                          /\ workspaces'[target].tasklist = Append(workspaces[target].tasklist, client)
                          /\ DOMAIN clients' = DOMAIN clients
                          /\ \E k \in 1..Len(last'.cmds) :
                                last'.cmds[k] = Cmd("unmap_window", container_id(client), 0)
                          /\ focus' = VecLast(VecPop(stack))
                          /\ \E k \in 1..Len(last'.cmds) :
                                /\ last'.cmds[k][1] = "set_focus"
                                /\ \A m \in (k + 1)..Len(last'.cmds) : last'.cmds[m][1] # "set_focus"
                                /\ last'.cmds[k] = Cmd("set_focus",
                                                       IF Len(stack) > 1 THEN stack[Len(stack) - 1] ELSE 0, 0)]_vars

\* Shift+2 pressed twice on workspace 0: the second client moved is the last
\* of workspace 1's stack and tasklist, behind the first, and the client
\* left on workspace 0 has the focus
C19_Witness ==
    /\ pc = "events"
    /\ last.op = "KeyPress" /\ last.arg.key = "Number" /\ last.arg.is_shift
    /\ last.arg.number = 2
    /\ active_workspace_index = 0
    /\ Len(workspaces[0].stack) = 1
    /\ Len(workspaces[1].stack) = 2
    /\ focus = Some(workspaces[0].stack[1])
    /\ SentIn(last.cmds, "unmap_window")

\* the windows named by the commands called name in cmds
Targets(cmds, name) == {cmds[k][2] : k \in {m \in 1..Len(cmds) : cmds[m][1] = name}}

\* the index a key press hands to change_active_workspace
SwitchIndex(key, awi) ==
    CASE key.key = "Number" -> key.number - 1
      [] key.key = "Right" -> (awi + 1) % NumWorkspaces
      [] OTHER -> (awi + NumWorkspaces - 1) % NumWorkspaces

\* C20: a key press that calls change_active_workspace(i) (Mod+N, Mod+Right,
\* Mod+Left): when i is the active workspace nothing changes and nothing is
\* sent; otherwise the handler returns with i active, map_window sent for
\* exactly the containers of workspace i, unmap_window for exactly the
\* containers of the workspace left, the focus set to the top of workspace
\* i's stack (or none), and every stack and tasklist as it was.
C20_ChangeActiveWorkspace ==
    [][(/\ last'.op = "KeyPress"
        /\ last'.arg.key \in {"Number", "Right", "Left"}
        /\ ~last'.arg.is_shift)
       => LET awi == active_workspace_index
              i == SwitchIndex(last'.arg, awi)
          IN  /\ pc' = "events"
              /\ workspaces' = workspaces
              /\ drag_state' = drag_state
              /\ IF i = awi
                 THEN /\ UNCHANGED <<active_workspace_index, clients, focus, top_panel, bottom_panel>>
                      /\ last'.cmds = <<>>
                 ELSE /\ active_workspace_index' = i
                      /\ Targets(last'.cmds, "map_window")
                            = {container_id(w) : w \in Range(workspaces[i].stack)}
                      /\ Targets(last'.cmds, "unmap_window")
                            = {container_id(w) : w \in Range(workspaces[awi].stack)}
                      /\ focus' = VecLast(workspaces[i].stack)
                      /\ Targets(last'.cmds, "set_focus")
                            = {IF workspaces[i].stack = <<>> THEN root
                               ELSE workspaces[i].stack[Len(workspaces[i].stack)]}
                      /\ DOMAIN clients' = DOMAIN clients
                      /\ \A w \in DOMAIN clients :
                            SerializedClient(w, clients'[w]) = SerializedClient(w, clients[w])]_vars

\* Mod+2 has switched from workspace 0, which holds a client, to workspace
\* 1, which holds another: one container mapped, one unmapped
C20_Witness ==
    /\ pc = "events"
    /\ last.op = "KeyPress" /\ last.arg.key = "Number" /\ ~last.arg.is_shift
    /\ active_workspace_index = 1
    /\ Len(workspaces[0].stack) >= 1
    /\ Len(workspaces[1].stack) >= 1
    /\ focus = VecLast(workspaces[1].stack)
    /\ SentIn(last.cmds, "map_window")
    /\ SentIn(last.cmds, "unmap_window")

\* C21: after a startup that read a session file that parses, every
\* workspace's stack and tasklist hold the same ids, each once, whatever id
\* lists the file holds.
C21_StartupReconciles ==
    (pc = "events" /\ last.op = "Startup" /\ IsSome(open_and_parse(file)))
    => Consistent(workspaces)

\* C22: a window adopted at startup without a session entry is maximized
\* exactly when its queried width is the screen width, as handle_map_request
\* decides it, whatever its height.  (Such a client records the queried
\* width, so the recorded width is the queried one.)
C22_StartupMaximizedAsMapRequest ==
    (pc = "events" /\ last.op = "Startup" /\ ~IsSome(open_and_parse(file)))
    => \A w \in DOMAIN clients : clients[w].maximized = (clients[w].width = screen_width)

\* the ids held by some stack or tasklist
Held(ws) == UNION {Range(ws[i].stack) \cup Range(ws[i].tasklist) : i \in WorkspaceIndices}

\* the ids a session file lists in some stack
ListedIn(f) ==
    IF IsSome(open_and_parse(f))
    THEN LET st == Unwrap(open_and_parse(f))
         IN  UNION {{st.workspaces[i].stack[k].id : k \in 1..Len(st.workspaces[i].stack)} :
                        i \in WorkspaceIndices}
    ELSE {}

\* C23: after startup a window reported as unmapped or override-redirect is
\* in no stack and no tasklist, listed in the session file or not, and every
\* window reported viewable is in a stack all the same.
C23_StartupSkipsUnmanageable ==
    (pc = "events" /\ last.op = "Startup")
    => /\ \A w \in Windows :
             last.arg[w] \in {"unmapped", "override_redirect", "absent"} => w \notin Held(workspaces)
       /\ \A w \in Windows :
             last.arg[w] = "viewable"
             => \E i \in WorkspaceIndices : w \in Range(workspaces[i].stack)

\* the file lists an override-redirect window and an unmapped one; a third,
\* viewable window was adopted
C23_Witness ==
    /\ pc = "events"
    /\ last.op = "Startup"
    /\ \E u, v, w \in Windows :
          /\ last.arg[u] = "override_redirect" /\ u \in ListedIn(file)
          /\ last.arg[v] = "unmapped" /\ v \in ListedIn(file)
          /\ last.arg[w] = "viewable" /\ w \in Held(workspaces)

\* C24: a map request for an unmanaged window that is not maximized records
\* y = top panel height + (screen height - top panel height - bottom panel
\* height - h) / 2 for the queried height h: the window centred between the
\* two panels.
C24_MapRequestCenteredInBand ==
    (/\ pc = "events"
     /\ last.op = "MapRequest"
     /\ IsSome(last.arg)
     /\ Unwrap(last.arg).width # screen_width)
    => clients[last.window].y
         = top_panel_PANEL_HEIGHT
           + RustDiv(screen_height - top_panel_PANEL_HEIGHT - bottom_panel_PANEL_HEIGHT
                     - Unwrap(last.arg).height, 2)

\* the client of the active workspace a pointer event names, by its window
\* or by its container
PressedClient(W, ev) ==
    LET found == position_by_window(active_stack(W), ev.event)
    IN  IF IsSome(found) THEN Some(At(active_stack(W), Unwrap(found))) ELSE None

\* C25: for a button press on a client of the active workspace that is not
\* maximized, handled to its end: the drag state becomes a Move exactly when
\* the button is 1 and the press is on the container, with the modifier or
\* inside the titlebar rectangle; it becomes a Resize anchored at the
\* content's bottom-right corner (x + width, y + height), move_pointer sent
\* there, exactly when the press is on the container with the modifier and
\* button 3; any other press leaves the drag state as it was; and when a
\* drag state is set the pressed client is the last of the stack.
C25_PressStartsDrag ==
    pc = "events"
    => \A ev \in PointerEvents : \A oc \in BOOLEAN :
          LET W == World
              W2 == handle_button_press(W, ev, oc)
              pressed == PressedClient(W, ev)
          IN  (IsSome(pressed) /\ ~W.clients[Unwrap(pressed)].maximized /\ Ok(W2))
              => LET id == Unwrap(pressed)
                     c == W.clients[id]
                     on_container == ev.event = container_id(id)
                     move == /\ ev.detail = 1
                             /\ on_container
                             /\ (ev.mod4 \/ on_titlebar(c, ev.event_x, ev.event_y))
                     resize == ev.detail = 3 /\ on_container /\ ev.mod4
                 IN  /\ move => /\ IsSome(W2.drag_state)
                                /\ Unwrap(W2.drag_state).kind = "Move"
                     /\ resize => /\ W2.drag_state
                                       = Some(DragState("Resize", c.x + c.width, c.y + c.height))
                                  /\ \E k \in 1..Len(W2.cmds) :
                                        W2.cmds[k] = Cmd("move_pointer", c.x + c.width, c.y + c.height)
                     /\ (move \/ resize) => VecLast(active_stack(W2)) = Some(id)
                     /\ (~move /\ ~resize) => W2.drag_state = W.drag_state

\* C26: handled to its end, a button press that names a client of the
\* active workspace by its window or its container leaves that client last
\* of the active stack, the other entries in their order, whatever the
\* button and the modifier; a press that names no client of the active
\* workspace changes nothing and sends nothing.
C26_PressRaises ==
    pc = "events"
    => \A ev \in PointerEvents : \A oc \in BOOLEAN :
          LET W == World
              W2 == handle_button_press(W, ev, oc)
              pressed == PressedClient(W, ev)
          IN  IF IsSome(pressed)
              THEN Ok(W2)
                   => /\ active_stack(W2)
                           = Append(Without(active_stack(W), Unwrap(pressed)), Unwrap(pressed))
                      /\ W2.active_workspace_index = W.active_workspace_index
              ELSE W2 = W

\* the motion events Wm::handle_event can be handed: those of PointerEvents,
\* and pointer motion over the bottom panel, which selects it
MotionEvents ==
    PointerEvents
    \cup {[event |-> bottom_panel_id, detail |-> 0, mod4 |-> FALSE,
           root_x |-> p.root_x, root_y |-> p.root_y,
           event_x |-> p.event_x, event_y |-> p.event_y] : p \in PointerSamples}

\* C27: with a drag state present, a motion event handled to its end leaves
\* a drag state of the same kind whose position is the root position of the
\* event, whichever window the event names.
C27_MotionTracksPointer ==
    (pc = "events" /\ IsSome(drag_state))
    => \A ev \in MotionEvents : \A oc \in BOOLEAN :
          LET W2 == handle_motion_notify(World, ev, oc)
          IN  Ok(W2)
              => W2.drag_state
                   = Some(DragState(Unwrap(drag_state).kind, ev.root_x, ev.root_y))

\* C28: in a Move drag, each motion event handled for a client of the active
\* workspace adds to the client's recorded position the difference between
\* the event's pointer position and the position recorded before (the
\* position of the press, then of the previous motion), and leaves its size;
\* the press itself leaves position and size.  Over motions p1..pn after a
\* press at p0 the differences add up to pn - p0.
C28_MoveDragFollowsPointer ==
    [][/\ (/\ last'.op = "MotionNotify"
           /\ pc' = "events"
           /\ IsSome(drag_state)
           /\ Unwrap(drag_state).kind = "Move"
           /\ IsSome(PressedClient(World, [event |-> last'.window])))
          => LET id == Unwrap(PressedClient(World, [event |-> last'.window]))
             IN  /\ clients'[id].x = clients[id].x + (Unwrap(drag_state').x - Unwrap(drag_state).x)
                 /\ clients'[id].y = clients[id].y + (Unwrap(drag_state').y - Unwrap(drag_state).y)
                 /\ clients'[id].width = clients[id].width
                 /\ clients'[id].height = clients[id].height
       /\ (last'.op = "ButtonPress" /\ pc' = "events")
          => \A id \in DOMAIN clients :
                SerializedClient(id, clients'[id]) = SerializedClient(id, clients[id])]_vars

\* window 1, adopted at (50,70), pressed at (100,100) and dragged until the
\* pointer is at (150,20): it is at (100,-10) with its size
C28_Witness ==
    /\ pc = "events"
    /\ last.op = "MotionNotify"
    /\ drag_state = Some(DragState("Move", 150, 20))
    /\ 1 \in DOMAIN clients
    /\ SerializedClient(1, clients[1])
         = [id |-> 1, x |-> 100, y |-> -10, width |-> 800, height |-> 600, maximized |-> FALSE]

\* C29: a button press on a maximized client of the active workspace,
\* handled to its end, leaves the drag state as it was, absent or present,
\* whatever the button, the modifier and the coordinates, and leaves the
\* client last of the active stack.
C29_MaximizedPressNoDrag ==
    pc = "events"
    => \A ev \in PointerEvents : \A oc \in BOOLEAN :
          LET W == World
              W2 == handle_button_press(W, ev, oc)
              pressed == PressedClient(W, ev)
          IN  (IsSome(pressed) /\ W.clients[Unwrap(pressed)].maximized /\ Ok(W2))
              => /\ W2.drag_state = W.drag_state
                 /\ VecLast(active_stack(W2)) = pressed

\* C30: no motion event changes the recorded x, y, width or height of a
\* client that is maximized when the event is handled, whatever presses, key
\* presses and motions came before.
C30_MaximizedIgnoresMotion ==
    [][(last'.op = "MotionNotify")
       => \A id \in DOMAIN clients :
             clients[id].maximized
             => /\ id \in DOMAIN clients'
                /\ SerializedClient(id, clients'[id]) = SerializedClient(id, clients[id])]_vars

\* the buttons grabbed on a container after the commands cmds, grabs being
\* the buttons grabbed before: a new window has none
RECURSIVE ContainerGrabs(_, _, _)
ContainerGrabs(cmds, container, grabs) ==
    IF cmds = <<>> THEN grabs
    ELSE LET c == Head(cmds)
         IN  ContainerGrabs(Tail(cmds), container,
                IF c[2] # container THEN grabs
                ELSE IF c[1] \in {"create_window", "destroy_window"} THEN {}
                ELSE IF c[1] = "grab_button" THEN grabs \cup {c[3]}
                ELSE IF c[1] = "ungrab_button" THEN grabs \ {c[3]}
                ELSE grabs)

\* the grabs a client's container should hold
ExpectedGrabs(cs, id) == IF id \in DOMAIN cs /\ ~cs[id].maximized THEN {1, 3} ELSE {}

\* C31: the grabs of button 1 and button 3 on a client's container are
\* installed exactly when the client is not maximized: if they were so
\* before a step, the commands of the step (construction of a client,
\* set_maximized, destruction) leave them so after it.
C31_GrabsFollowMaximized ==
    [][(pc' = "events")
       => \A id \in DOMAIN clients' :
             ContainerGrabs(last'.cmds, container_id(id),
                            IF pc = "events" THEN ExpectedGrabs(clients, id) ELSE {})
               = ExpectedGrabs(clients', id)]_vars

\* Mod+M has maximized a client that was constructed with the grabs: they
\* were removed
C31_Witness ==
    /\ pc = "events"
    /\ last.op = "KeyPress" /\ last.arg.key = "M"
    /\ IsSome(focus)
    /\ clients[Unwrap(focus)].maximized
    /\ \E k \in 1..Len(last.cmds) :
          last.cmds[k] = Cmd("ungrab_button", container_id(Unwrap(focus)), 3)

Painted(cmds, id) == \E k \in 1..Len(cmds) : cmds[k][1] = "draw_titlebar" /\ cmds[k][2] = container_id(id)

\* C32: Client::request_redraw repaints the decoration exactly when
\* need_redraw is set and the client is not maximized, and then clears the
\* flag; it changes nothing else, so a maximized client is not repainted and
\* keeps its flag; a second request_redraw right after the first repaints
\* nothing and changes nothing.  Checked for every client of every
\* reachable state and both values of is_active.
C32_RepaintOnlyWhenNeeded ==
    \A id \in DOMAIN clients, is_active \in BOOLEAN :
        LET R == Client_request_redraw(World, id, is_active)
            again == Client_request_redraw([R EXCEPT !.cmds = <<>>], id, is_active)
        IN  /\ Ok(R)
            /\ Painted(R.cmds, id) <=> (clients[id].need_redraw /\ ~clients[id].maximized)
            /\ Len(R.cmds) = IF Painted(R.cmds, id) THEN 1 ELSE 0
            /\ Painted(R.cmds, id) => ~R.clients[id].need_redraw
            /\ ~Painted(R.cmds, id) => R = World
            /\ [R EXCEPT !.cmds = <<>>, !.clients[id].need_redraw = clients[id].need_redraw] = World
            /\ again = [R EXCEPT !.cmds = <<>>]

\* a redraw pass has repainted a client of the active workspace and left a
\* maximized client of that workspace with its flag still set
C32_Witness ==
    /\ pc = "events"
    /\ last.op = "RedrawPass"
    /\ \E id \in Range(workspaces[active_workspace_index].stack) :
          Painted(last.cmds, id) /\ ~clients[id].need_redraw /\ ~clients[id].maximized
    /\ \E id \in Range(workspaces[active_workspace_index].stack) :
          clients[id].maximized /\ clients[id].need_redraw /\ ~Painted(last.cmds, id)

\* C33: in every reachable state and for every configure request, with the
\* overflow checks compiled in or not: a request for a window that is not
\* managed is passed to the display server with its own value mask and
\* changes nothing of the state; a request for a managed window whose mask
\* has neither WIDTH nor HEIGHT changes nothing and sends nothing; and no
\* request changes the recorded x or y of any client.
C33_ConfigureRequestFrame ==
    (pc = "events") =>
        \A ev \in ConfigureRequests, oc \in BOOLEAN :
            LET R == handle_configure_request(World, ev, oc)
            IN  /\ ~Managed(ev.window)
                      => R = Emit(World, << Cmd("allow_configure_request", ev.window, ev.value_mask) >>)
                /\ (Managed(ev.window) /\ ev.value_mask \cap {"WIDTH", "HEIGHT"} = {})
                      => R = World
                /\ DOMAIN R.clients = DOMAIN clients
                /\ \A w \in DOMAIN clients :
                      R.clients[w].x = clients[w].x /\ R.clients[w].y = clients[w].y

\* a configure request has resized a managed client that is away from the
\* origin of the screen
C33_Witness ==
    /\ pc = "events"
    /\ last.op = "ConfigureRequest"
    /\ Managed(last.window)
    /\ SentCommand("set_window_width")
    /\ clients[last.window].width = 640 /\ clients[last.window].height = 480
    /\ clients[last.window].x > 0 /\ clients[last.window].y > 0

\* C34: no handler takes a mutable borrow of a workspace's stack or
\* tasklist while another borrow of the same cell is live: no reachable
\* state is the one a BorrowMutError panic leaves behind.
C34_NoDoubleBorrow == panic # "already_borrowed"

\* C35: the active workspace index is one of 0..8 in every reachable state,
\* whatever active_workspace_index the session file read at startup holds.
C35_ActiveIndexInRange == active_workspace_index \in WorkspaceIndices

Occurrences(ws, id) ==
    {<<i, k>> \in WorkspaceIndices \X (1..MaxWindows) :
        k <= Len(ws[i].stack) /\ ws[i].stack[k] = id}

RECURSIVE ContainerMapped(_, _, _)
ContainerMapped(cmds, container, mapped) ==
    IF cmds = <<>> THEN mapped
    ELSE LET c == Head(cmds)
         IN  ContainerMapped(Tail(cmds), container,
                IF c[2] # container THEN mapped
                ELSE IF c[1] \in {"create_window", "destroy_window", "unmap_window"} THEN FALSE
                ELSE IF c[1] = "map_window" THEN TRUE
                ELSE mapped)

InActiveWorkspace(ws, awi, id) == awi \in WorkspaceIndices /\ id \in Range(ws[awi].stack)

\* C37: after startup and after every handled event each client's container
\* is mapped exactly when the client is in the stack of the active workspace.
\* Checked as a step: with every container mapped before the step exactly
\* when its client is in the active workspace (unmapped for a client that
\* does not exist yet), the map_window, unmap_window, create_window and
\* destroy_window commands of the step leave every container so after it.
C37_MappedIffActive ==
    [][(pc' = "events")
       => \A id \in DOMAIN clients' :
             ContainerMapped(last'.cmds, container_id(id),
                             pc = "events" /\ id \in DOMAIN clients
                               /\ InActiveWorkspace(workspaces, active_workspace_index, id))
               = InActiveWorkspace(workspaces', active_workspace_index', id)]_vars

\* a switch of workspace has unmapped the container of a client of the
\* workspace left and mapped the container of a client of the one entered
C37_Witness ==
    /\ pc = "events"
    /\ last.op = "KeyPress" /\ last.arg.key = "Number" /\ ~last.arg.is_shift
    /\ \E a, b \in DOMAIN clients :
          /\ InActiveWorkspace(workspaces, active_workspace_index, a)
          /\ ~InActiveWorkspace(workspaces, active_workspace_index, b)
          /\ Managed(b)
          /\ \E k \in 1..Len(last.cmds) : last.cmds[k] = Cmd("map_window", container_id(a), 0)
          /\ \E k \in 1..Len(last.cmds) : last.cmds[k] = Cmd("unmap_window", container_id(b), 0)

\* C38: in every state where the loop waits for events, a primary-button
\* press on the bottom panel that hits slot i of the panel's layout finds i
\* a valid index of the active workspace's tasklist and raises the client
\* at that position, whatever was handled since the layout was drawn.
C38_BottomPanelSlotValid ==
    (pc = "events") =>
        \A root_x \in BottomPanelClicks :
            LET layout == bottom_panel.layout
                hits == {k \in 1..Len(layout) :
                            layout[k][1] <= AsU16(root_x) /\ AsU16(root_x) <= layout[k][2]}
                tasklist == workspaces[active_workspace_index].tasklist
                stack == workspaces[active_workspace_index].stack
                R == BottomPanel_handle_button_press(World, root_x)
            IN  hits # {} =>
                  LET i == (CHOOSE k \in hits : \A j \in hits : k <= j) - 1
                  IN  /\ i < Len(tasklist)
                      /\ Ok(R)
                      /\ R = raise_client(World, Unwrap(VecPosition(stack, At(tasklist, i))))

Top(ws, awi) == VecLast(ws[awi].stack)

\* the is_active of the last repaint of id's decoration in cmds
RECURSIVE LastPaint(_, _, _)
LastPaint(cmds, id, sofar) ==
    IF cmds = <<>> THEN sofar
    ELSE LET c == Head(cmds)
         IN  LastPaint(Tail(cmds), id,
                IF c[1] = "draw_titlebar" /\ c[2] = container_id(id) THEN Some(c[3] = 1) ELSE sofar)

\* a non-maximized client of the active workspace whose decoration needs no
\* repaint
Settled(ws, cs, awi, id) ==
    /\ id \in DOMAIN cs
    /\ id \in Range(ws[awi].stack)
    /\ ~cs[id].maximized
    /\ ~cs[id].need_redraw

\* C39: (a) an event that changes the topmost client of the active
\* workspace leaves need_redraw set on the client that gained the top and,
\* if it is still in the active workspace, on the client that lost it;
\* (b) an event leaves a non-maximized client of the active workspace
\* without need_redraw only if it was such a client before and is topmost
\* after the event exactly if it was before; (c) a redraw pass leaves every
\* non-maximized client of the active workspace without need_redraw, having
\* painted it as active exactly if it is topmost, or not painted it when it
\* needed no repaint and is topmost exactly if it was before.  By (b) and
\* (c), after every redraw pass each such client was last painted as active
\* exactly when it is the last element of the stack.
C39_TopChangeRepaints ==
    [][(pc' = "events")
       => LET awi == active_workspace_index
              top == IF pc = "events" THEN Top(workspaces, awi) ELSE None
              top2 == Top(workspaces', active_workspace_index')
              stack2 == workspaces'[active_workspace_index'].stack
              kept(id) == /\ pc = "events"
                          /\ Settled(workspaces, clients, awi, id)
                          /\ (top = Some(id)) <=> (top2 = Some(id))
          IN  IF last'.op \in {"Startup", "RedrawPass"}
              THEN \A id \in Range(stack2) :
                      ~clients'[id].maximized
                        => /\ ~clients'[id].need_redraw
                           /\ LET paint == LastPaint(last'.cmds, id, None)
                              IN  IF IsSome(paint)
                                  THEN Unwrap(paint) <=> (top2 = Some(id))
                                  ELSE kept(id)
              ELSE /\ (top2 # top)
                        => /\ IsSome(top2) => clients'[Unwrap(top2)].need_redraw
                           /\ (IsSome(top) /\ Unwrap(top) \in Range(stack2))
                                 => clients'[Unwrap(top)].need_redraw
                   /\ \A id \in Range(stack2) :
                         Settled(workspaces', clients', active_workspace_index', id) => kept(id)]_vars

\* a redraw pass after a change of the topmost client has repainted the
\* new topmost client as active and a client below it as inactive
C39_Witness ==
    /\ pc = "events"
    /\ last.op = "RedrawPass"
    /\ LET stack == workspaces[active_workspace_index].stack
       IN  /\ Len(stack) >= 2
           /\ LastPaint(last.cmds, stack[Len(stack)], None) = Some(TRUE)
           /\ \E k \in 1..(Len(stack) - 1) : LastPaint(last.cmds, stack[k], None) = Some(FALSE)
           /\ \A k \in 1..Len(stack) : ~clients[stack[k]].need_redraw

\* C40: in every state where the loop waits for events,
\* move_active_client_forward_in_tasklist followed by
\* move_active_client_backward_in_tasklist, and backward followed by
\* forward, complete and leave every workspace's stack and tasklist, the
\* clients and the focus as they were.
C40_TasklistMoveRoundTrip ==
    (pc = "events") =>
        LET F == move_active_client_forward_in_tasklist(World)
            FB == move_active_client_backward_in_tasklist(F)
            B == move_active_client_backward_in_tasklist(World)
            BF == move_active_client_forward_in_tasklist(B)
        IN  /\ Ok(F) /\ Ok(FB) /\ Ok(B) /\ Ok(BF)
            /\ FB.workspaces = workspaces /\ BF.workspaces = workspaces
            /\ FB.clients = clients /\ BF.clients = clients
            /\ FB.focus = focus /\ BF.focus = focus
            /\ F.workspaces[active_workspace_index].stack = workspaces[active_workspace_index].stack
            /\ B.workspaces[active_workspace_index].stack = workspaces[active_workspace_index].stack

\* a backward move has taken the focused client of a tasklist of three
\* from its first position round to the last, where a forward move wraps
C40_Witness ==
    /\ pc = "events"
    /\ last.op = "KeyPress" /\ last.arg.key = "J" /\ last.arg.is_shift
    /\ LET tasklist == workspaces[active_workspace_index].tasklist
           stack == workspaces[active_workspace_index].stack
       IN  /\ Len(tasklist) = 3 /\ Len(stack) = 3
           /\ tasklist[3] = stack[3]
           /\ move_active_client_forward_in_tasklist(World).workspaces[active_workspace_index].tasklist[1]
                 = stack[3]

====
